---- MODULE Spec2Model ----
(***************************************************************************)
(* Cross-chain (Kaspa) merge-mining verifier and reward schedule of        *)
(* go-canxium: consensus/misc/cip0002.go, core/types/merge_kaspa_block.go, *)
(* core/types/tx_cross_mining.go.                                          *)
(*                                                                         *)
(* Arbitrary-precision integers (math/big) are byte strings, big-endian,   *)
(* without leading zero bytes (<<>> is 0); machine integers that fit 31    *)
(* bits are TLA+ integers.  The operations on them compute their operands  *)
(* first: CHOOSE r \in {F(x) : x \in {a}} : TRUE is F(a) with a evaluated   *)
(* before F is entered.                                                    *)
(***************************************************************************)
EXTENDS Integers, Sequences, FiniteSets, TLC

Nil == "nil"

\* ------------------------------------------------------------------------
\* math/big on non-negative values
\* ------------------------------------------------------------------------

\* the least and the greatest element of a non-empty set of integers
Least(S) == CHOOSE i \in S : \A j \in S : i <= j
Greatest(S) == CHOOSE i \in S : \A j \in S : i >= j

Zeros(n) == IF n <= 0 THEN <<>> ELSE <<>> \o [i \in 1..n |-> 0]

\* without leading zero bytes
DropLeading(b, nonZero) ==
    IF nonZero = {} THEN <<>> ELSE SubSeq(b, Least(nonZero), Len(b))

Norm(b) == DropLeading(b, {i \in 1..Len(b) : b[i] # 0})

RECURSIVE BigFromNat(_)
BigFromNat(n) == IF n = 0 THEN <<>> ELSE Append(BigFromNat(n \div 256), n % 256)

CmpAt(a, b, differ) ==
    IF differ = {} THEN 0 ELSE IF a[Least(differ)] < b[Least(differ)] THEN -1 ELSE 1

CmpBytes(a, b) ==
    IF Len(a) < Len(b) THEN -1
    ELSE IF Len(a) > Len(b) THEN 1
    ELSE CmpAt(a, b, {i \in 1..Len(a) : a[i] # b[i]})

\* big.Int.Cmp on magnitudes: -1, 0, +1
BigCmp(a, b) == CHOOSE r \in {CmpBytes(x, y) : x \in {a}, y \in {b}} : TRUE

\* left-pad to n bytes (no truncation)
PadTo(b, n) == Zeros(n - Len(b)) \o b

\* Digit-wise arithmetic on the bytes lo..hi (index 1 is the most significant):
\* the range is halved, the half the carry comes from is computed first, and
\* the results are [c, d], the carry out and the digits.
JoinDigits(high, low) == [c |-> high.c, d |-> high.d \o low.d]

RECURSIVE AddRange(_, _, _, _, _)
AddRange(a, b, lo, hi, carry) ==
    IF lo > hi THEN [c |-> carry, d |-> <<>>]
    ELSE IF lo = hi
      THEN [c |-> (a[lo] + b[lo] + carry) \div 256, d |-> <<(a[lo] + b[lo] + carry) % 256>>]
    ELSE CHOOSE r \in
           { JoinDigits(AddRange(a, b, lo, (lo + hi) \div 2, low.c), low) :
               low \in {AddRange(a, b, (lo + hi) \div 2 + 1, hi, carry)} } : TRUE

AddPadded(a, b, n) ==
    CHOOSE r \in { Norm(<<s.c>> \o s.d) :
                   s \in {AddRange(PadTo(a, n), PadTo(b, n), 1, n, 0)} } : TRUE

AddBytes(a, b) == AddPadded(a, b, IF Len(a) > Len(b) THEN Len(a) ELSE Len(b))

\* big.Int.Add on magnitudes
BigAdd(a, b) == CHOOSE r \in {AddBytes(x, y) : x \in {a}, y \in {b}} : TRUE

\* c is the borrow
RECURSIVE SubRange(_, _, _, _, _)
SubRange(a, b, lo, hi, borrow) ==
    IF lo > hi THEN [c |-> borrow, d |-> <<>>]
    ELSE IF lo = hi
      THEN IF a[lo] - b[lo] - borrow < 0
             THEN [c |-> 1, d |-> <<a[lo] - b[lo] - borrow + 256>>]
             ELSE [c |-> 0, d |-> <<a[lo] - b[lo] - borrow>>]
    ELSE CHOOSE r \in
           { JoinDigits(SubRange(a, b, lo, (lo + hi) \div 2, low.c), low) :
               low \in {SubRange(a, b, (lo + hi) \div 2 + 1, hi, borrow)} } : TRUE

SubBytes(a, b) ==
    CHOOSE r \in { Norm(s.d) : s \in {SubRange(a, PadTo(b, Len(a)), 1, Len(a), 0)} } : TRUE

\* a - b for a >= b
BigSub(a, b) == CHOOSE r \in {SubBytes(x, y) : x \in {a}, y \in {b}} : TRUE

RECURSIVE MulSmallRange(_, _, _, _, _)
MulSmallRange(a, k, lo, hi, carry) ==
    IF lo > hi THEN [c |-> carry, d |-> <<>>]
    ELSE IF lo = hi
      THEN [c |-> (a[lo] * k + carry) \div 256, d |-> <<(a[lo] * k + carry) % 256>>]
    ELSE CHOOSE r \in
           { JoinDigits(MulSmallRange(a, k, lo, (lo + hi) \div 2, low.c), low) :
               low \in {MulSmallRange(a, k, (lo + hi) \div 2 + 1, hi, carry)} } : TRUE

MulSmallBytes(a, k) ==
    CHOOSE r \in { Norm(BigFromNat(s.c) \o s.d) :
                   s \in {MulSmallRange(a, k, 1, Len(a), 0)} } : TRUE

\* a * k for a machine integer 0 <= k < 2^22
BigMulSmall(a, k) == CHOOSE r \in {MulSmallBytes(x, y) : x \in {a}, y \in {k}} : TRUE

\* a times the bytes lo..hi of b
RECURSIVE MulRange(_, _, _, _)
MulRange(a, b, lo, hi) ==
    IF lo > hi THEN <<>>
    ELSE IF lo = hi THEN BigMulSmall(a, b[lo])
    ELSE BigAdd(Norm(MulRange(a, b, lo, (lo + hi) \div 2) \o Zeros(hi - (lo + hi) \div 2)),
                MulRange(a, b, (lo + hi) \div 2 + 1, hi))

\* big.Int.Mul on magnitudes
BigMul(a, b) == CHOOSE r \in {MulRange(x, y, 1, Len(y)) : x \in {a}, y \in {b}} : TRUE

\* the division of r * 256^(hi - lo + 1) + a[lo..hi] by d: [q, r], the quotient
\* digits and the remainder
JoinQuotient(high, low) == [q |-> high.q \o low.q, r |-> low.r]

RECURSIVE DivRange(_, _, _, _, _)
DivRange(a, d, lo, hi, r) ==
    IF lo > hi THEN [q |-> <<>>, r |-> r]
    ELSE IF lo = hi
      THEN [q |-> <<(r * 256 + a[lo]) \div d>>, r |-> (r * 256 + a[lo]) % d]
    ELSE CHOOSE res \in
           { JoinQuotient(high, DivRange(a, d, (lo + hi) \div 2 + 1, hi, high.r)) :
               high \in {DivRange(a, d, lo, (lo + hi) \div 2, r)} } : TRUE

DivBytes(a, d) ==
    CHOOSE res \in { [q |-> Norm(s.q), r |-> s.r] : s \in {DivRange(a, d, 1, Len(a), 0)} } : TRUE

\* quotient and remainder of a by a machine integer 0 < d < 2^23
BigDivMod(a, d) == CHOOSE res \in {DivBytes(x, y) : x \in {a}, y \in {d}} : TRUE

RECURSIVE Pow2(_)
Pow2(n) == IF n = 0 THEN 1 ELSE 2 * Pow2(n - 1)

\* big.Int.Lsh / Rsh by n bits
BigLsh(a, n) == Norm(BigMulSmall(a, Pow2(n % 8)) \o Zeros(n \div 8))
BigRsh(a, n) ==
    LET keep == Len(a) - (n \div 8) IN
    IF keep <= 0 THEN <<>>
    ELSE BigDivMod(SubSeq(a, 1, keep), Pow2(n % 8)).q

RECURSIVE BitLenSmall(_)
BitLenSmall(n) == IF n = 0 THEN 0 ELSE 1 + BitLenSmall(n \div 2)

\* big.Int.BitLen
BigBitLen(a) == IF a = <<>> THEN 0 ELSE 8 * (Len(a) - 1) + BitLenSmall(a[1])

\* a decimal literal written in groups of three digits, most significant first
RECURSIVE BigFromDec(_)
BigFromDec(g) == IF g = <<>> THEN <<>>
                 ELSE BigAdd(BigMulSmall(BigFromDec(SubSeq(g, 1, Len(g) - 1)), 1000),
                             BigFromNat(g[Len(g)]))

\* signed values: big.Int with its sign
MkInt(neg, mag) == [neg |-> neg /\ mag # <<>>, mag |-> mag]
Sign(x) == IF x.mag = <<>> THEN 0 ELSE IF x.neg THEN -1 ELSE 1
IntCmp(x, y) ==
    IF Sign(x) # Sign(y) THEN (IF Sign(x) < Sign(y) THEN -1 ELSE 1)
    ELSE IF Sign(x) >= 0 THEN BigCmp(x.mag, y.mag) ELSE BigCmp(y.mag, x.mag)

\* ------------------------------------------------------------------------
\* Reward schedule (consensus/misc/cip0002.go)
\* ------------------------------------------------------------------------

UnknownChain == 0
KaspaChain == 1
MoneroChain == 2

KaspaPhaseTwoDayNum == 3
KaspaPhaseThreeMonth == 141
SecondsPerDay == 86400
SecondsPerMonth == 2592000
RewardDivisor == 1000000

KaspaCrossMiningIncentiveBaseRewards == <<600000, 400000, 200000>>

KaspaCrossMiningBaseRewards == <<
    183829, 91915, 45958, 25868, 23963, 23254, 22566, 21898, 21249, 20620,
    20010, 19418, 18843, 18285, 17744, 17219, 16709, 16214, 15734, 15269,
    14817, 14378, 13953, 13540, 13139, 12750, 12372, 12006, 11651, 11306,
    10971, 10647, 10331, 10026, 9729, 9441, 9161, 8890, 8627, 8372, 8124,
    7883, 7650, 7424, 7204, 6991, 6784, 6583, 6388, 6199, 6016, 5838, 5665,
    5497, 5334, 5176, 5023, 4875, 4730, 4590, 4454, 4323, 4195, 4070, 3950,
    3833, 3720, 3610, 3503, 3399, 3298, 3201, 3106, 3014, 2925, 2838, 2754,
    2673, 2594, 2517, 2442, 2370, 2300, 2232, 2166, 2102, 2040, 1979, 1921,
    1864, 1809, 1755, 1703, 1653, 1604, 1556, 1510, 1466, 1422, 1380, 1339,
    1300, 1261, 1224, 1188, 1153, 1119, 1085, 1053, 1022, 992, 963, 934,
    906, 880, 854, 828, 804, 780, 757, 735, 713, 692, 671, 651, 632, 613,
    595, 578, 561, 544, 528, 512, 497, 482, 468, 454, 441, 428, 415, 403,
    400 >>

\* a variant of the Lithium table that scales the pre-Lithium entries by 1000
KaspaCrossMiningLithiumBaseRewardsThousand ==
    [i \in DOMAIN KaspaCrossMiningBaseRewards |-> 1000 * KaspaCrossMiningBaseRewards[i]]

KaspaCrossMiningLithiumBaseRewards == <<
    94120448, 47060480, 23530496, 13244416, 12269056, 11906048, 11553792,
    11211776, 10879488, 10557440, 10245120, 9942016, 9647616, 9361920,
    9084928, 8816128, 8555008, 8301568, 8055808, 7817728, 7586304, 7361536,
    7143936, 6932480, 6727168, 6528000, 6334464, 6147072, 5965312, 5788672,
    5617152, 5451264, 5289472, 5133312, 4981248, 4833792, 4690432, 4551680,
    4417024, 4286464, 4159488, 4036096, 3916800, 3801088, 3688448, 3579392,
    3473408, 3370496, 3270656, 3173888, 3080192, 2989056, 2900480, 2814464,
    2731008, 2650112, 2571776, 2496000, 2421760, 2350080, 2280448, 2213376,
    2147840, 2083840, 2022400, 1962496, 1904640, 1848320, 1793536, 1740288,
    1688576, 1638912, 1590272, 1543168, 1497600, 1453056, 1410048, 1368576,
    1328128, 1288704, 1250304, 1213440, 1177600, 1142784, 1108992, 1076224,
    1044480, 1013248, 983552, 954368, 926208, 898560, 871936, 846336,
    821248, 796672, 773120, 750592, 728064, 706560, 685568, 665600, 645632,
    626688, 608256, 590336, 572928, 555520, 539136, 523264, 507904, 493056,
    478208, 463872, 450560, 437248, 423936, 411648, 399360, 387584, 376320,
    365056, 354304, 343552, 333312, 323584, 313856, 304640, 295936, 287232,
    278528, 270336, 262144, 254464, 246784, 239616, 232448, 225792, 219136,
    212480, 206336, 204800 >>

\* a variant with months of 31 days
timePassedSinceForkLongMonths(forkTime, time) ==
    IF time < forkTime THEN [dayNum |-> 0, month |-> 0]
    ELSE [dayNum |-> (time - forkTime) \div SecondsPerDay,
          month  |-> (time - forkTime) \div (31 * SecondsPerDay)]

\* a variant that counts the day of the fork as day one
timePassedSinceForkInclusive(forkTime, time) ==
    IF time < forkTime THEN [dayNum |-> 0, month |-> 0]
    ELSE [dayNum |-> (time - forkTime) \div SecondsPerDay + 1,
          month  |-> (time - forkTime) \div SecondsPerMonth]

\* timePassedSinceFork: whole days and whole 30-day months from forkTime to time
timePassedSinceFork(forkTime, time) ==
    IF time < forkTime THEN [dayNum |-> 0, month |-> 0]
    ELSE [dayNum |-> (time - forkTime) \div SecondsPerDay,
          month  |-> (time - forkTime) \div SecondsPerMonth]

\* a variant that reads the pre-Lithium table whatever the fork
KaspaBaseRewardPreLithium(isLithiumFork, forkTime, time) ==
    LET p == timePassedSinceFork(forkTime, time)
    IN  IF p.dayNum < KaspaPhaseTwoDayNum
          THEN KaspaCrossMiningIncentiveBaseRewards[p.dayNum + 1]
        ELSE IF p.month < KaspaPhaseThreeMonth
          THEN KaspaCrossMiningBaseRewards[p.month + 1]
        ELSE KaspaCrossMiningBaseRewards[KaspaPhaseThreeMonth + 1]

\* a variant whose plateau repeats the first entry of the month table
KaspaBaseRewardPlateauFirst(isLithiumFork, forkTime, time) ==
    LET p == timePassedSinceFork(forkTime, time)
        baseRewards == IF isLithiumFork THEN KaspaCrossMiningLithiumBaseRewards
                       ELSE KaspaCrossMiningBaseRewards
    IN  IF p.dayNum < KaspaPhaseTwoDayNum
          THEN KaspaCrossMiningIncentiveBaseRewards[p.dayNum + 1]
        ELSE IF p.month < KaspaPhaseThreeMonth
          THEN baseRewards[p.month + 1]
        ELSE baseRewards[1]

\* a variant that rescales the incentive entries by 512 after the Lithium fork
KaspaBaseRewardLithiumIncentive(isLithiumFork, forkTime, time) ==
    LET p == timePassedSinceFork(forkTime, time)
        baseRewards == IF isLithiumFork THEN KaspaCrossMiningLithiumBaseRewards
                       ELSE KaspaCrossMiningBaseRewards
    IN  IF p.dayNum < KaspaPhaseTwoDayNum
          THEN (IF isLithiumFork THEN 512 ELSE 1)
                   * KaspaCrossMiningIncentiveBaseRewards[p.dayNum + 1]
        ELSE IF p.month < KaspaPhaseThreeMonth
          THEN baseRewards[p.month + 1]
        ELSE baseRewards[KaspaPhaseThreeMonth + 1]

\* the base reward kaspaCrossMiningReward picks; Go arrays are indexed from 0
KaspaBaseReward(isLithiumFork, forkTime, time) ==
    LET p == timePassedSinceFork(forkTime, time)
        baseRewards == IF isLithiumFork THEN KaspaCrossMiningLithiumBaseRewards
                       ELSE KaspaCrossMiningBaseRewards
    IN  IF p.dayNum < KaspaPhaseTwoDayNum
          THEN KaspaCrossMiningIncentiveBaseRewards[p.dayNum + 1]
        ELSE IF p.month < KaspaPhaseThreeMonth
          THEN baseRewards[p.month + 1]
        ELSE baseRewards[KaspaPhaseThreeMonth + 1]

\* kaspaCrossMiningReward: difficulty * baseReward / 1000000 on big.Int
kaspaCrossMiningReward(isLithiumFork, difficulty, forkTime, time) ==
    BigDivMod(BigMul(difficulty, BigFromNat(KaspaBaseReward(isLithiumFork, forkTime, time))),
              RewardDivisor).q

\* a variant without the test of the time against the fork time
CrossMiningRewardAnyTime(isLithiumFork, chain, difficulty, forkTime, time) ==
    IF chain = KaspaChain
      THEN kaspaCrossMiningReward(isLithiumFork, difficulty, forkTime, time)
    ELSE <<>>

\* CrossMiningReward, given the block's chain and its Difficulty()
CrossMiningReward(isLithiumFork, chain, difficulty, forkTime, time) ==
    IF time < forkTime THEN <<>>
    ELSE IF chain = KaspaChain
      THEN kaspaCrossMiningReward(isLithiumFork, difficulty, forkTime, time)
    ELSE <<>>

\* ------------------------------------------------------------------------
\* Compact target and difficulty (core/types/merge_kaspa_block.go)
\* ------------------------------------------------------------------------

\* mainPowMax = 2^255 - 1
mainPowMax == BigSub(BigLsh(<<1>>, 255), <<1>>)

MantissaMod == Pow2(23)    \* 0x00800000: the sign bit, one above the 23-bit mantissa
ExponentDiv == Pow2(24)    \* 1 << 24

\* difficulty.CompactToBig: the signed target a header's bits encode
CompactToBig(compact) ==
    LET mantissa   == compact % MantissaMod
        isNegative == (compact \div MantissaMod) % 2 = 1
        exponent   == compact \div ExponentDiv
        mag == IF exponent <= 3
                 THEN BigFromNat(mantissa \div Pow2(8 * (3 - exponent)))
                 ELSE BigLsh(BigFromNat(mantissa), 8 * (exponent - 3))
    IN  MkInt(isNegative, mag)

\* IEEE-754 binary64 values are [m, e] standing for m * 2^e, m below 2^53
\* unless rounding carried into 2^53 exactly.
RECURSIVE BigToNat(_)
BigToNat(b) == IF b = <<>> THEN 0 ELSE 256 * BigToNat(SubSeq(b, 1, Len(b) - 1)) + b[Len(b)]

BigIsOdd(b) == b # <<>> /\ b[Len(b)] % 2 = 1

\* how many zero bytes the non-zero b ends with
TrailingZeroBytes(b) == Len(b) - Greatest({i \in 1..Len(b) : b[i] # 0})

\* round-to-nearest-even of the integer q (plus a fraction that is non-zero
\* iff sticky) to 53 significant bits
RoundShifted(q, sticky, sh, top) ==
    LET c == BigCmp(BigSub(q, BigLsh(top, sh)), BigLsh(<<1>>, sh - 1))
    IN  [m |-> IF c > 0 \/ (c = 0 /\ (sticky \/ BigIsOdd(top)))
                 THEN BigAdd(top, <<1>>) ELSE top,
         e |-> sh]

RoundAtLen(q, sticky, L) ==
    IF L <= 53 THEN [m |-> q, e |-> 0]
    ELSE CHOOSE f \in {RoundShifted(q, sticky, L - 53, top) : top \in {BigRsh(q, L - 53)}} : TRUE

Round53(q, sticky) ==
    CHOOSE f \in {RoundAtLen(x, sticky, BigBitLen(x)) : x \in {q}} : TRUE

\* f * 2^(-s)
ScaleDown(f, s) == [m |-> f.m, e |-> f.e - s]

\* the binary64 nearest to n / (d * 256^k), for n > 0 and a machine integer d > 0
\* (big.Rat.Float64)
RatQuotient(hi, lo, d, s) ==
    CHOOSE f \in { ScaleDown(Round53(qr.q, qr.r # 0 \/ Norm(lo) # <<>>), s) :
                   qr \in {BigDivMod(hi, d)} } : TRUE

RatShifted(a, d, k, s) ==
    RatQuotient(IF Len(a) > k THEN SubSeq(a, 1, Len(a) - k) ELSE <<>>,
                IF Len(a) > k THEN SubSeq(a, Len(a) - k + 1, Len(a)) ELSE a,
                d, s)

RatScaled(n, d, k, s) ==
    CHOOSE f \in {RatShifted(a, d, k, s) : a \in {BigLsh(n, s)}} : TRUE

RatWanted(n, d, k, want) == RatScaled(n, d, k, IF want > 0 THEN want ELSE 0)

RatFloat64(n, d, k) ==
    CHOOSE f \in { RatWanted(x, d, k, want) :
                   x \in {n}, want \in {56 + BitLenSmall(d) + 8 * k - BigBitLen(n)} } : TRUE

\* math.Round of m * 2^e: the nearest integer, halves away from zero
RoundFraction(m, n, int) ==
    IF BigCmp(BigSub(m, BigLsh(int, n)), BigLsh(<<1>>, n - 1)) >= 0
      THEN BigAdd(int, <<1>>) ELSE int

RoundFloat(f) ==
    IF f.e >= 0 THEN BigLsh(f.m, f.e)
    ELSE RoundFraction(f.m, 0 - f.e, BigRsh(f.m, 0 - f.e))

\* the integer part of m * 2^e
TruncFloat(f) == IF f.e >= 0 THEN BigLsh(f.m, f.e) ELSE BigRsh(f.m, 0 - f.e)

MaxInt64 == BigSub(BigLsh(<<1>>, 63), <<1>>)
MinInt64Mag == BigLsh(<<1>>, 63)

\* int64(f) for a float64 f of magnitude v: out of range the result depends on
\* the target architecture (amd64 yields the minimum int64, arm64 saturates)
FloatToInt64(neg, v, arch) ==
    IF BigCmp(v, MaxInt64) <= 0 \/ (neg /\ BigCmp(v, MinInt64Mag) = 0) THEN MkInt(neg, v)
    ELSE IF arch = "amd64" THEN MkInt(TRUE, MinInt64Mag)
    ELSE IF neg THEN MkInt(TRUE, MinInt64Mag) ELSE MkInt(FALSE, MaxInt64)

RoundingPrecision == 100

\* KaspaBlock.Difficulty: mainPowMax / target as a float64, rounded to two
\* decimals, converted to int64.  big.Rat.SetFrac panics on a zero target.
\* f * roundingPrecision
MulPrecision(f) ==
    CHOOSE g \in { ScaleDown(Round53(p, FALSE), 0 - f.e) :
                   p \in {BigMulSmall(f.m, RoundingPrecision)} } : TRUE

\* the integer r as a float64, over roundingPrecision
DivPrecision(r) ==
    IF r = <<>> THEN [m |-> <<>>, e |-> 0] ELSE RatFloat64(r, RoundingPrecision, 0)

\* math.Round(f * roundingPrecision) / roundingPrecision
RoundToPrecision(f) ==
    CHOOSE g \in { DivPrecision(r) : r \in {RoundFloat(p) : p \in {MulPrecision(f)}} } : TRUE

\* new(big.Rat).SetFrac(mainPowMax, target).Float64(), on the magnitude mag
\* with k trailing zero bytes
TargetQuotient(mag, k) ==
    CHOOSE f \in { RatFloat64(mainPowMax, d, k) :
                   d \in {BigToNat(SubSeq(mag, 1, Len(mag) - k))} } : TRUE

DifficultyOfTarget(target, arch) ==
    IF Sign(target) = 0 THEN [panic |-> TRUE, val |-> MkInt(FALSE, <<>>)]
    ELSE CHOOSE r \in
           { [panic |-> FALSE, val |-> FloatToInt64(target.neg, v, arch)] :
               v \in { TruncFloat(f) :
                         f \in { RoundToPrecision(q) :
                                   q \in {TargetQuotient(target.mag,
                                                         TrailingZeroBytes(target.mag))} } } }
           : TRUE

Difficulty(bits, arch) ==
    CHOOSE r \in {DifficultyOfTarget(target, arch) : target \in {CompactToBig(bits)}} : TRUE

\* ------------------------------------------------------------------------
\* Bytes, hex strings (characters are ASCII codes)
\* ------------------------------------------------------------------------

HexDigit(n) == IF n < 10 THEN 48 + n ELSE 87 + n          \* '0'..'9', 'a'..'f'

\* encoding/hex's reverseHexTable: 255 marks a character that is no hex digit
HexValue(c) ==
    IF c >= 48 /\ c <= 57 THEN c - 48
    ELSE IF c >= 97 /\ c <= 102 THEN c - 87
    ELSE IF c >= 65 /\ c <= 70 THEN c - 55
    ELSE 255

\* hex.EncodeToString
HexEncode(b) ==
    <<>> \o [i \in 1..(2 * Len(b)) |->
               IF i % 2 = 1 THEN HexDigit(b[(i + 1) \div 2] \div 16)
                            ELSE HexDigit(b[i \div 2] % 16)]

\* hex.DecodeString: the bytes decoded before the first invalid character (or
\* the dangling last one), and whether an error is reported
\* the first n pairs of s as bytes
HexPairs(s, n) ==
    IF n = 0 THEN <<>>
    ELSE <<>> \o [p \in 1..n |-> 16 * HexValue(s[2 * p - 1]) + HexValue(s[2 * p])]

\* bad: the pairs that hold an invalid character
HexDecodeUpTo(s, bad) ==
    [bytes |-> HexPairs(s, IF bad = {} THEN Len(s) \div 2 ELSE Least(bad) - 1),
     err   |-> bad # {} \/ Len(s) % 2 = 1]

HexDecodeString(s) ==
    HexDecodeUpTo(s, {p \in 1..(Len(s) \div 2) :
                        HexValue(s[2 * p - 1]) > 15 \/ HexValue(s[2 * p]) > 15})

\* common.Hex2Bytes drops the error
Hex2Bytes(s) == HexDecodeString(s).bytes

\* common.LeftPadBytes
LeftPadBytes(b, n) == IF Len(b) >= n THEN b ELSE Zeros(n - Len(b)) \o b

AddressLength == 20

\* common.BytesToAddress: the last 20 bytes, right-aligned
BytesToAddress(b) ==
    IF Len(b) > AddressLength THEN SubSeq(b, Len(b) - AddressLength + 1, Len(b))
    ELSE Zeros(AddressLength - Len(b)) \o b

\* common.HexToAddress of "0x" followed by s (FromHex makes an odd length even)
HexToAddress(s) == BytesToAddress(Hex2Bytes(IF Len(s) % 2 = 1 THEN <<48>> \o s ELSE s))

\* ------------------------------------------------------------------------
\* KaspaBlock (core/types/merge_kaspa_block.go)
\*
\* A block is [nil, chain, Header, MerkleProof, Coinbase]; a pointer that may
\* be nil is a record with the flag nil.  Header is
\* [nil, Kbits, Knonce, Ktimestamp, KhashMerkleRoot, hash, pow]: hash stands
\* for the 32 bytes consensushashing.HeaderHash yields for the header and pow
\* for the heavy-hash value pow.State compares with the target; both are
\* functions of the header that the model leaves open.  Coinbase is
\* [nil, isCoinbase, Payload, txHash], txHash standing for its
\* consensushashing.TransactionHash.  Merkle hashes are numbers: atoms below
\* HashAtoms and the injective pairing of hashMerkleBranches above them; a nil
\* *DomainHash is NilHash.
\* ------------------------------------------------------------------------

\* "canxiuminer:"
minerTagPrefix == <<99, 97, 110, 120, 105, 117, 109, 105, 110, 101, 114, 58>>
MinerAddressChars == 40

IsValidBlock(b) ==
    /\ ~b.Header.nil
    /\ ~b.Coinbase.nil
    /\ ~(b.Header.Knonce = 0 \/ b.Header.Ktimestamp = <<>> \/ b.Header.Kbits = 0)
    /\ Len(b.Coinbase.Payload) # 0

\* KaspaBlock.BlockHash: Header.PowHash() is consensushashing.HeaderHash,
\* printed as 64 hex characters
BlockHash(b) == HexEncode(b.Header.hash)

\* KaspaBlock.Timestamp
Timestamp(b) == b.Header.Ktimestamp

\* KaspaBlockHeader.clone: a new header with every field copied
clone(header) ==
    [nil |-> FALSE, Kbits |-> header.Kbits, Knonce |-> header.Knonce,
     Ktimestamp |-> header.Ktimestamp, KhashMerkleRoot |-> header.KhashMerkleRoot,
     hash |-> header.hash, pow |-> header.pow]

\* Memory holds the header objects of a call: "header" is the one the block
\* points to, "clone" the one clone() allocates. A reference is one of the two
\* names.

\* a variant that hands out the header itself
ToMutableShared(mem, ref) == [mem |-> mem, ref |-> ref]

\* KaspaBlockHeader.ToMutable: the memory with the clone in it, and a
\* reference to the clone
ToMutable(mem, ref) == [mem |-> [mem EXCEPT !.clone = clone(mem[ref])], ref |-> "clone"]

\* KaspaBlockHeader.SetNonce, KaspaBlockHeader.SetTimeInMilliseconds
HeaderSetNonce(mem, ref, nonce) == [mem EXCEPT ![ref].Knonce = nonce]
HeaderSetTimeInMilliseconds(mem, ref, t) == [mem EXCEPT ![ref].Ktimestamp = t]

\* pow.NewState(header): zeroes time and nonce of the header it is handed,
\* hashes it, and puts them back; the memory after each of the four writes
NewStateZeroed(mem, ref) == HeaderSetNonce(HeaderSetTimeInMilliseconds(mem, ref, <<>>), ref, 0)
NewState(mem, ref) ==
    << HeaderSetTimeInMilliseconds(mem, ref, <<>>),
       NewStateZeroed(mem, ref),
       HeaderSetTimeInMilliseconds(NewStateZeroed(mem, ref), ref, mem[ref].Ktimestamp),
       HeaderSetNonce(HeaderSetTimeInMilliseconds(NewStateZeroed(mem, ref), ref, mem[ref].Ktimestamp),
                ref, mem[ref].Knonce) >>

NewStateOf(m) == <<m.mem>> \o NewState(m.mem, m.ref)

\* the memory through KaspaBlock.VerifyPoW: state := pow.NewState(b.Header.ToMutable())
VerifyPoWSteps(header) == NewStateOf(ToMutable([header |-> header, clone |-> Nil], "header"))

\* the transaction with its header as the call left it
HeaderAfter(tx, steps) ==
    IF steps = <<>> THEN tx
    ELSE [tx EXCEPT !.AuxPoW.Header = steps[Len(steps)].header]

\* state.CheckProofOfWork: the heavy-hash value is at most the target
CheckProofOfWork(h, target) == BigCmp(h.pow, target.mag) <= 0

\* a variant without the upper bound on the target
VerifyPoWUnbounded(b) ==
    LET target == CompactToBig(b.Header.Kbits) IN
    IF Sign(target) <= 0 THEN "target too low"
    ELSE IF ~CheckProofOfWork(b.Header, target) THEN "invalid proof of work"
    ELSE Nil

\* KaspaBlock.VerifyPoW: Nil or an error
VerifyPoW(b) ==
    LET target == CompactToBig(b.Header.Kbits) IN
    IF Sign(target) <= 0 THEN "target too low"
    ELSE IF BigCmp(target.mag, mainPowMax) > 0 THEN "target too high"
    ELSE IF ~CheckProofOfWork(b.Header, target) THEN "invalid proof of work"
    ELSE Nil

HashAtoms == 16
NilHash == -1

\* hashMerkleBranches: the hash of left || right
hashMerkleBranches(left, right) == HashAtoms + HashAtoms * left + right

\* consensushashing.TransactionHash of the coinbase
TransactionHash(cb) == cb.txHash

RECURSIVE FoldMerkleProof(_, _, _)
FoldMerkleProof(proof, i, computedHash) ==
    IF i > Len(proof) THEN [ok |-> TRUE, hash |-> computedHash]
    ELSE IF proof[i] = NilHash THEN [ok |-> FALSE, hash |-> computedHash]
    ELSE FoldMerkleProof(proof, i + 1, hashMerkleBranches(computedHash, proof[i]))

verifyMerkleProofForCoinbaseTx(b) ==
    LET computedHash == TransactionHash(b.Coinbase) IN
    IF Len(b.MerkleProof) = 0 THEN computedHash = b.Header.KhashMerkleRoot
    ELSE LET f == FoldMerkleProof(b.MerkleProof, 1, computedHash) IN
         f.ok /\ f.hash = b.Header.KhashMerkleRoot

\* transactionhelper.IsCoinBase
IsCoinBase(cb) == cb.isCoinbase

\* a variant that verifies the branch of any transaction
VerifyBranchOnly(b) == verifyMerkleProofForCoinbaseTx(b)

VerifyCoinbase(b) ==
    IF ~IsCoinBase(b.Coinbase) THEN FALSE
    ELSE verifyMerkleProofForCoinbaseTx(b)

\* a variant that looks for the tag at the start of the payload
GetMinerAddressFromStart(b) ==
    LET payload   == b.Coinbase.Payload
        tagLength == Len(minerTagPrefix) + MinerAddressChars
    IN  IF Len(payload) < tagLength
          THEN [err |-> "invalid payload length", addr |-> Zeros(AddressLength)]
        ELSE LET tag == SubSeq(payload, 1, tagLength) IN
             IF SubSeq(tag, 1, Len(minerTagPrefix)) # minerTagPrefix
               THEN [err |-> "invalid payload tag", addr |-> Zeros(AddressLength)]
             ELSE [err |-> Nil,
                   addr |-> HexToAddress(SubSeq(tag, Len(minerTagPrefix) + 1, tagLength))]

\* KaspaBlock.GetMinerAddress: [err, addr]
GetMinerAddress(b) ==
    LET payload   == b.Coinbase.Payload
        tagLength == Len(minerTagPrefix) + MinerAddressChars
    IN  IF Len(payload) < tagLength
          THEN [err |-> "invalid payload length", addr |-> Zeros(AddressLength)]
        ELSE LET tag == SubSeq(payload, Len(payload) - tagLength + 1, Len(payload)) IN
             IF SubSeq(tag, 1, Len(minerTagPrefix)) # minerTagPrefix
               THEN [err |-> "invalid payload tag", addr |-> Zeros(AddressLength)]
             ELSE [err |-> Nil,
                   addr |-> HexToAddress(SubSeq(tag, Len(minerTagPrefix) + 1, tagLength))]

\* ------------------------------------------------------------------------
\* Chain configuration (params.ChainConfig): [HeliumTime, LithiumTime,
\* MiningContract, MinimumKaspaDifficulty]; a fork time that is not set is
\* NoFork.
\* ------------------------------------------------------------------------

NoFork == -1

\* params.ChainConfig.IsHelium / IsLithium: the fork is set and not after time
IsHelium(config, time) == config.HeliumTime # NoFork /\ config.HeliumTime <= time
IsLithium(config, time) == config.LithiumTime # NoFork /\ config.LithiumTime <= time

\* ------------------------------------------------------------------------
\* The cross-mining verifier (consensus/misc/cip0002.go)
\* A transaction is [type, to, from, value, data, AuxPoW]; to is an address or
\* <<>> for a contract creation.
\* ------------------------------------------------------------------------

\* crossMining(address,uint16,uint256): 0x97b8f2fc
CanxiumCrossMiningTxDataMethod == <<151, 184, 242, 252>>

\* 2^256 / 512
maxPoWInLithiumFork == BigDivMod(BigLsh(<<1>>, 256), 512).q

allowedFutureBlockTimeMilliSeconds == 12000
MilliPerSecond == 1000

isValidKaspaBlockHash(hashHex) ==
    LET d == HexDecodeString(hashHex) IN
    IF d.err THEN [valid |-> FALSE, err |-> "hex"]
    ELSE [valid |-> BigCmp(Norm(d.bytes), maxPoWInLithiumFork) = -1, err |-> Nil]

\* CrossMiningForkTime, for a chain with a fork time (Kaspa)
CrossMiningForkTime(config, parentChain) == config.HeliumTime

\* a variant that leaves the fork time in seconds
CrossMiningForkTimeSeconds(config, parentChain) ==
    BigFromNat(CrossMiningForkTime(config, parentChain))

\* CrossMiningForkTimeMilli
CrossMiningForkTimeMilli(config, parentChain) ==
    BigMulSmall(BigFromNat(CrossMiningForkTime(config, parentChain)), MilliPerSecond)

\* CrossMiningMinDifficulty
CrossMiningMinDifficulty(config, parentChain) ==
    IF parentChain = KaspaChain THEN config.MinimumKaspaDifficulty ELSE mainPowMax

\* isSupportedCrossMining
isSupportedCrossMining(config, tx, blockTime) ==
    IF tx.AuxPoW.chain = KaspaChain THEN IsHelium(config, blockTime) ELSE FALSE

\* fmt.Sprintf("%04x", chain): at least four hex digits
RECURSIVE HexOfNat(_)
HexOfNat(n) == IF n = 0 THEN <<>> ELSE Append(HexOfNat(n \div 16), HexDigit(n % 16))

\* fmt.Sprintf("%0<width>s", s): left-padded with '0'
ZeroPadString(s, width) ==
    IF Len(s) >= width THEN s ELSE [i \in 1..(width - Len(s)) |-> 48] \o s

\* a variant that writes the timestamp word before the chain word
buildCrossMiningTxInputSwapped(chain, address, timestamp) ==
    CanxiumCrossMiningTxDataMethod \o LeftPadBytes(address, 32) \o PadTo(timestamp, 32)
        \o PadTo(<<chain \div 256, chain % 256>>, 32)

buildCrossMiningTxInput(chain, address, timestamp) ==
    LET paddedAddress   == LeftPadBytes(address, 32)
        timestampPadded == PadTo(timestamp, 32)
        chainHex        == ZeroPadString(HexOfNat(chain), 4)
        chainPadded     == HexDecodeString(ZeroPadString(chainHex, 64)).bytes
    IN  CanxiumCrossMiningTxDataMethod \o paddedAddress \o chainPadded \o timestampPadded

\* a variant that rejects only a value above the reward
SealValueAtMostReward(config, tx, blockTime, difficulty) ==
    LET crossBlock    == tx.AuxPoW
        timestamp     == Timestamp(crossBlock)
        chainForkTime == CrossMiningForkTime(config, crossBlock.chain)
        reward        == CrossMiningReward(IsLithium(config, blockTime), crossBlock.chain,
                                           difficulty.mag, chainForkTime, blockTime)
        miner         == GetMinerAddress(crossBlock)
    IN  IF BigCmp(tx.value, reward) > 0 THEN "ErrInvalidMiningTxValue"
        ELSE IF VerifyPoW(crossBlock) # Nil THEN "ErrInvalidMergePoW"
        ELSE IF ~VerifyCoinbase(crossBlock) THEN "ErrInvalidMergeCoinbase"
        ELSE IF miner.err # Nil THEN miner.err
        ELSE IF buildCrossMiningTxInput(crossBlock.chain, miner.addr, timestamp) # tx.data
          THEN "ErrInvalidMiningInput"
        ELSE Nil

\* the checks of VerifyCrossMiningTxSeal from the value check on
SealValueAndProof(config, tx, blockTime, difficulty) ==
    LET crossBlock    == tx.AuxPoW
        timestamp     == Timestamp(crossBlock)
        chainForkTime == CrossMiningForkTime(config, crossBlock.chain)
        reward        == CrossMiningReward(IsLithium(config, blockTime), crossBlock.chain,
                                           difficulty.mag, chainForkTime, blockTime)
        miner         == GetMinerAddress(crossBlock)
    IN  IF BigCmp(tx.value, reward) # 0 THEN "ErrInvalidMiningTxValue"
        ELSE IF VerifyPoW(crossBlock) # Nil THEN "ErrInvalidMergePoW"
        ELSE IF ~VerifyCoinbase(crossBlock) THEN "ErrInvalidMergeCoinbase"
        ELSE IF miner.err # Nil THEN miner.err
        ELSE IF buildCrossMiningTxInput(crossBlock.chain, miner.addr, timestamp) # tx.data
          THEN "ErrInvalidMiningInput"
        ELSE Nil

\* the checks of VerifyCrossMiningTxSeal from the receiver check on
SealShape(config, tx, blockTime, diff) ==
    LET crossBlock == tx.AuxPoW
        timestamp  == Timestamp(crossBlock)
        blockTimeMilli == BigMulSmall(BigFromNat(blockTime), MilliPerSecond)
    IN  IF tx.to = <<>> \/ tx.to # config.MiningContract THEN "ErrInvalidMiningReceiver"
        ELSE IF diff.panic THEN "panic"
        ELSE IF Sign(diff.val) <= 0 THEN "ErrInvalidDifficulty"
        ELSE IF IntCmp(diff.val, MkInt(FALSE, CrossMiningMinDifficulty(config, crossBlock.chain))) < 0
          THEN "ErrDifficultyUnderValue"
        ELSE IF BigCmp(timestamp, CrossMiningForkTimeMilli(config, crossBlock.chain)) < 0
          THEN "ErrInvalidMiningBlockTime"
        ELSE IF BigCmp(timestamp,
                       BigAdd(blockTimeMilli, BigFromNat(allowedFutureBlockTimeMilliSeconds))) > 0
          THEN "ErrInvalidFutureBlock"
        ELSE SealValueAndProof(config, tx, blockTime, diff.val)

\* a variant that checks the receiver before it looks at the block
VerifyCrossMiningTxSealReceiverFirst(config, tx, blockTime, arch) ==
    IF tx.to = <<>> \/ tx.to # config.MiningContract THEN "ErrInvalidMiningReceiver"
    ELSE IF tx.AuxPoW.nil THEN "ErrInvalidNilBlock"
    ELSE IF ~IsValidBlock(tx.AuxPoW) THEN "ErrInvalidCrossChainBlock"
    ELSE IF ~isSupportedCrossMining(config, tx, blockTime) THEN "ErrInvalidMiningTimeLine"
    ELSE SealShape(config, tx, blockTime, Difficulty(tx.AuxPoW.Header.Kbits, arch))

\* VerifyCrossMiningTxSeal: Nil, an error, or "panic" when the call aborts
VerifyCrossMiningTxSeal(config, tx, blockTime, arch) ==
    IF tx.AuxPoW.nil THEN "ErrInvalidNilBlock"
    ELSE IF ~IsValidBlock(tx.AuxPoW) THEN "ErrInvalidCrossChainBlock"
    ELSE IF ~isSupportedCrossMining(config, tx, blockTime) THEN "ErrInvalidMiningTimeLine"
    ELSE LET lithium == IsLithium(config, blockTime) /\ tx.AuxPoW.chain = KaspaChain
             v == isValidKaspaBlockHash(BlockHash(tx.AuxPoW))
         IN  IF lithium /\ v.err # Nil THEN v.err
             ELSE IF lithium /\ ~v.valid THEN "ErrInvalidBlockPoWHash"
             ELSE SealShape(config, tx, blockTime,
                            Difficulty(tx.AuxPoW.Header.Kbits, arch))

\* what VerifyCrossMiningTxSeal returns when it got as far as calling VerifyPoW
AfterVerifyPoW ==
    { Nil, "ErrInvalidMergePoW", "ErrInvalidMergeCoinbase", "invalid payload length",
      "invalid payload tag", "ErrInvalidMiningInput" }

CrossMiningTxType == "CrossMiningTx"

\* a variant that flags every call of crossMining, whatever the type
IsCrossMiningCall(config, tx) ==
    IF tx.to # <<>> /\ tx.to = config.MiningContract
      THEN Len(tx.data) >= 4 /\ CanxiumCrossMiningTxDataMethod = SubSeq(tx.data, 1, 4)
      ELSE FALSE

\* IsUnauthorizedCrossMiningTx
IsUnauthorizedCrossMiningTx(config, tx) ==
    IF tx.to # <<>> /\ tx.to = config.MiningContract
      THEN IF Len(tx.data) >= 4 /\ CanxiumCrossMiningTxDataMethod = SubSeq(tx.data, 1, 4)
             THEN tx.type # CrossMiningTxType
             ELSE FALSE
      ELSE FALSE

\* ------------------------------------------------------------------------
\* Inputs of the model
\* ------------------------------------------------------------------------

\* how many fields of the well-formed transaction a miner has changed
MaxEdits == 2

HeliumTime == 1704067200                      \* the fork time of the reward tests
LithiumTime == HeliumTime + 30 * SecondsPerDay

Address(n) == [i \in 1..AddressLength |-> (n * 37 + i * 11) % 256]
MiningContract == Address(1)
SenderAddress == Address(2)
MinerAddress == Address(3)
OtherMinerAddress == Address(4)

ChainConfig == [HeliumTime |-> HeliumTime, LithiumTime |-> LithiumTime,
                MiningContract |-> MiningContract,
                MinimumKaspaDifficulty |-> BigFromNat(256)]

Architectures == {"amd64", "arm64"}

\* the ABI encoding of crossMining(address,uint16,uint256) a miner sends
CallData(miner, chain, timestamp) ==
    <<151, 184, 242, 252>> \o Zeros(32 - Len(miner)) \o miner \o Zeros(30)
        \o <<chain \div 256, chain % 256>> \o Zeros(32 - Len(timestamp)) \o timestamp

MinerPayload(lead, miner) == lead \o minerTagPrefix \o HexEncode(miner)

\* the same digits in capitals, and a text whose third character is no digit
UpperCase(s) == [i \in 1..Len(s) |-> IF s[i] >= 97 THEN s[i] - 32 ELSE s[i]]
NotHex(s) == [s EXCEPT ![3] = 103]

\* the coinbase transactions of the model; txHash is their position
Coinbases == <<
    [nil |-> FALSE, isCoinbase |-> TRUE,  txHash |-> 1,
     Payload |-> MinerPayload(<<1, 2, 3>>, MinerAddress)],
    [nil |-> FALSE, isCoinbase |-> FALSE, txHash |-> 2,
     Payload |-> MinerPayload(<<1, 2, 3>>, MinerAddress)],
    [nil |-> FALSE, isCoinbase |-> TRUE,  txHash |-> 3, Payload |-> <<>>],
    [nil |-> FALSE, isCoinbase |-> TRUE,  txHash |-> 4,
     Payload |-> Tail(MinerPayload(<<>>, MinerAddress))],
    [nil |-> FALSE, isCoinbase |-> TRUE,  txHash |-> 5,
     Payload |-> <<1, 2, 3, 67>> \o Tail(MinerPayload(<<>>, MinerAddress))],
    [nil |-> FALSE, isCoinbase |-> TRUE,  txHash |-> 6,
     Payload |-> MinerPayload(<<1, 2, 3>>, OtherMinerAddress)],
    [nil |-> FALSE, isCoinbase |-> TRUE,  txHash |-> 7,
     Payload |-> MinerPayload(<<>>, MinerAddress)],
    [nil |-> TRUE,  isCoinbase |-> FALSE, txHash |-> 8, Payload |-> <<>>],
    [nil |-> FALSE, isCoinbase |-> TRUE,  txHash |-> 9,
     Payload |-> <<1, 2, 3>> \o minerTagPrefix \o NotHex(HexEncode(MinerAddress))],
    [nil |-> FALSE, isCoinbase |-> TRUE,  txHash |-> 10,
     Payload |-> <<1, 2, 3>> \o minerTagPrefix \o UpperCase(HexEncode(MinerAddress))] >>

BitsChoices == { 0,
                 545259519,                   \* 0x207fffff: difficulty 1
                 511705087,                   \* 0x1e7fffff: difficulty 65536
                 536903680,                   \* 0x20008000: target 2^247, difficulty 256
                 553713663,                   \* 0x2100ffff: target above 2^255 - 1
                 545259520,                   \* 0x20800000: sign bit, mantissa 0
                 545259521,                   \* 0x20800001: negative target
                 50331649 }                   \* 0x03000001: target 1

BaseHash == <<0, 0, 18>> \o Zeros(29)
HashChoices == { <<0, 127>> \o [i \in 1..30 |-> 255],   \* 2^247 - 1
                 <<0, 128>> \o Zeros(30),                \* 2^247
                 [i \in 1..32 |-> 255] }

BlockTimeChoices == { HeliumTime - 1,
                      HeliumTime + 100,
                      HeliumTime + SecondsPerDay,
                      HeliumTime + 3 * SecondsPerDay,
                      LithiumTime,
                      HeliumTime + 141 * SecondsPerMonth }

ProofChoices == { <<>>, <<5>>, <<6>>, <<NilHash>>, <<5, 7>>, <<5, NilHash>> }

Millis(seconds) == BigMulSmall(BigFromNat(seconds), MilliPerSecond)

\* a well-formed Kaspa block; its bits 0x1f7fffff give the difficulty 256
BaseBlock ==
    [nil |-> FALSE, chain |-> KaspaChain,
     Header |-> [nil |-> FALSE, Kbits |-> 528482303, Knonce |-> 7,
                 Ktimestamp |-> BigAdd(Millis(HeliumTime), BigFromNat(5000)),
                 KhashMerkleRoot |-> hashMerkleBranches(1, 5),
                 hash |-> BaseHash, pow |-> <<1>>],
     MerkleProof |-> <<5>>,
     Coinbase |-> Coinbases[1]]

BaseTx ==
    [type |-> CrossMiningTxType, to |-> MiningContract, from |-> SenderAddress,
     value |-> BigFromNat(153),
     data |-> CallData(MinerAddress, KaspaChain, BigAdd(Millis(HeliumTime), BigFromNat(5000))),
     AuxPoW |-> BaseBlock]

\* ------------------------------------------------------------------------
\* The verifier as a state machine: a miner builds a transaction by changing
\* fields of a well-formed one, then the engine verifies it against the
\* parent header.
\* ------------------------------------------------------------------------

VARIABLES
    config,      \* the chain configuration
    arch,        \* the architecture the node is built for
    tx,          \* the transaction
    blockTime,   \* block.Time of the parent header
    edits,       \* fields changed so far
    args,        \* the arguments of a direct call of a reward function
    result,      \* [op, out] of the call made, op = "none" before it
    steps,       \* the header objects in memory after each write of the call
    engine,      \* the consensus engine: its fields and its channels
    procs        \* the goroutines of the engine and of its callers, each with its position

vars == <<config, arch, tx, blockTime, edits, args, result, steps, engine, procs>>

NoResult == [op |-> "none", out |-> Nil]
NoEngine == [kind |-> "none"]
NoProcs == <<>>
NoArgs == [isLithiumFork |-> FALSE, chain |-> UnknownChain, difficulty |-> <<>>,
           forkTime |-> 0, time |-> 0]

\* the parents of the model: one before and one after the Lithium fork
ParentTimes == {HeliumTime + 100, LithiumTime + 100}

\* the transaction an honest miner sends for BaseBlock under the parent time
HonestTx(time) ==
    [BaseTx EXCEPT !.value = CrossMiningReward(time >= LithiumTime, KaspaChain,
                                               Difficulty(BaseBlock.Header.Kbits, "amd64").val.mag,
                                               HeliumTime, time)]

Init ==
    /\ config = ChainConfig
    /\ arch \in Architectures
    /\ blockTime \in ParentTimes
    /\ tx = HonestTx(blockTime)
    /\ edits = 0
    /\ args = NoArgs
    /\ result = NoResult
    /\ steps = <<>>
    /\ engine = NoEngine
    /\ procs = NoProcs

CanEdit == result.op = "none" /\ edits < MaxEdits

Edit(newTx) ==
    /\ CanEdit
    /\ newTx # tx
    /\ tx' = newTx
    /\ edits' = edits + 1
    /\ UNCHANGED <<config, arch, blockTime, args, result, steps, engine, procs>>

SetAuxPoWNil == Edit([tx EXCEPT !.AuxPoW.nil = TRUE])

SetHeaderNil == Edit([tx EXCEPT !.AuxPoW.Header.nil = TRUE])

SetChain == \E c \in {UnknownChain, MoneroChain} : Edit([tx EXCEPT !.AuxPoW.chain = c])

SetNonce == Edit([tx EXCEPT !.AuxPoW.Header.Knonce = 0])

SetBits == \E b \in BitsChoices : Edit([tx EXCEPT !.AuxPoW.Header.Kbits = b])

TimestampChoices ==
    { <<>>,
      BigSub(Millis(config.HeliumTime), <<1>>),
      Millis(config.HeliumTime),
      BigAdd(Millis(blockTime), BigFromNat(allowedFutureBlockTimeMilliSeconds)),
      BigAdd(Millis(blockTime), BigFromNat(allowedFutureBlockTimeMilliSeconds + 1)) }

SetTimestamp ==
    /\ CanEdit
    /\ \E t \in TimestampChoices : Edit([tx EXCEPT !.AuxPoW.Header.Ktimestamp = t])

SetHeaderHash == \E h \in HashChoices : Edit([tx EXCEPT !.AuxPoW.Header.hash = h])

PowChoices ==
    LET target == CompactToBig(tx.AuxPoW.Header.Kbits) IN
    { <<>>, target.mag, BigAdd(target.mag, <<1>>), mainPowMax }

SetPow ==
    /\ CanEdit
    /\ \E p \in PowChoices : Edit([tx EXCEPT !.AuxPoW.Header.pow = p])

SetCoinbase == \E i \in 1..Len(Coinbases) : Edit([tx EXCEPT !.AuxPoW.Coinbase = Coinbases[i]])

\* the root a miner computes for the coinbase and branch at hand
RECURSIVE BranchRoot(_, _)
BranchRoot(leaf, branch) ==
    IF branch = <<>> THEN leaf
    ELSE BranchRoot(hashMerkleBranches(leaf, Head(branch)), Tail(branch))

MerkleRootOf(b) == BranchRoot(b.Coinbase.txHash, b.MerkleProof)

\* a miner mines another block: a coinbase together with the root that commits to it
MineCoinbase ==
    /\ CanEdit
    /\ \E i \in {j \in 1..Len(Coinbases) : ~Coinbases[j].nil} :
         Edit([tx EXCEPT !.AuxPoW.Coinbase = Coinbases[i],
                         !.AuxPoW.Header.KhashMerkleRoot =
                             BranchRoot(Coinbases[i].txHash, tx.AuxPoW.MerkleProof)])

SetMerkleProof == \E p \in ProofChoices : Edit([tx EXCEPT !.AuxPoW.MerkleProof = p])

SetMerkleRoot ==
    /\ CanEdit
    /\ \E r \in {0, tx.AuxPoW.Coinbase.txHash, MerkleRootOf(tx.AuxPoW)} :
         Edit([tx EXCEPT !.AuxPoW.Header.KhashMerkleRoot = r])

\* another receiver, or none (a contract creation)
SetTo == \E a \in {OtherMinerAddress, <<>>} : Edit([tx EXCEPT !.to = a])

\* the transaction types that carry no AuxPoW
OtherTxTypes == {"LegacyTx", "DynamicFeeTx"}

SetType == \E t \in OtherTxTypes : Edit([tx EXCEPT !.type = t])

SetFrom == Edit([tx EXCEPT !.from = MinerAddress])

\* the reward a miner computes for the block and parent at hand
RewardFor(d, b, time) ==
    IF d.panic \/ Sign(d.val) <= 0 THEN <<>>
    ELSE CrossMiningReward(IsLithium(config, time), b.chain, d.val.mag, config.HeliumTime, time)

RewardOf(b, time) == RewardFor(Difficulty(b.Header.Kbits, arch), b, time)

ValuesNear(r) ==
    {<<>>, r, BigAdd(r, <<1>>)} \cup (IF r = <<>> THEN {} ELSE {BigSub(r, <<1>>)})

ValueChoices == ValuesNear(RewardOf(tx.AuxPoW, blockTime))

SetValue ==
    /\ CanEdit
    /\ \E v \in ValueChoices : Edit([tx EXCEPT !.value = v])

FlipAt(d, i) == [d EXCEPT ![i] = (d[i] + 1) % 256]

DataNear(d) ==
    {d, SubSeq(d, 1, Len(d) - 1), d \o <<0>>, <<>>, SubSeq(d, 1, 3), SubSeq(d, 1, 4),
     CallData(tx.from, tx.AuxPoW.chain, tx.AuxPoW.Header.Ktimestamp)}
    \cup {FlipAt(d, i) : i \in {1, 4, 5, 36, 68, 100}}

DataChoices ==
    DataNear(CallData(GetMinerAddress(tx.AuxPoW).addr, tx.AuxPoW.chain,
                      tx.AuxPoW.Header.Ktimestamp))

SetData ==
    /\ CanEdit
    /\ \E d \in DataChoices : Edit([tx EXCEPT !.data = d])

SetBlockTime ==
    /\ CanEdit
    /\ \E t \in BlockTimeChoices \ {blockTime} : blockTime' = t
    /\ edits' = edits + 1
    /\ UNCHANGED <<config, arch, tx, args, result, steps, engine, procs>>

\* the engine calls VerifyCrossMiningTxSeal(config, tx, parent)
VerifySeal ==
    /\ result.op = "none"
    /\ result' = [op |-> "seal", out |-> VerifyCrossMiningTxSeal(config, tx, blockTime, arch)]
    /\ steps' = IF result'.out \in AfterVerifyPoW THEN VerifyPoWSteps(tx.AuxPoW.Header)
                ELSE <<>>
    /\ tx' = HeaderAfter(tx, steps')
    /\ UNCHANGED <<config, arch, blockTime, edits, args, engine, procs>>

\* a direct call of KaspaBlock.VerifyPoW on a block with a header
CallVerifyPoW ==
    /\ result.op = "none"
    /\ ~tx.AuxPoW.nil /\ ~tx.AuxPoW.Header.nil
    /\ result' = [op |-> "pow", out |-> VerifyPoW(tx.AuxPoW)]
    /\ steps' = VerifyPoWSteps(tx.AuxPoW.Header)
    /\ tx' = HeaderAfter(tx, steps')
    /\ UNCHANGED <<config, arch, blockTime, edits, args, engine, procs>>

\* a direct call of KaspaBlock.VerifyCoinbase on a block with header and coinbase
CallVerifyCoinbase ==
    /\ result.op = "none"
    /\ ~tx.AuxPoW.nil /\ ~tx.AuxPoW.Header.nil /\ ~tx.AuxPoW.Coinbase.nil
    /\ result' = [op |-> "coinbase", out |-> VerifyCoinbase(tx.AuxPoW)]
    /\ UNCHANGED <<config, arch, tx, blockTime, edits, args, steps, engine, procs>>

\* VerifyCrossMiningTxSeal and the miner's tooling call GetMinerAddress
CallGetMinerAddress ==
    /\ result.op = "none"
    /\ ~tx.AuxPoW.nil /\ ~tx.AuxPoW.Coinbase.nil
    /\ result' = [op |-> "miner", out |-> GetMinerAddress(tx.AuxPoW)]
    /\ UNCHANGED <<config, arch, tx, blockTime, edits, args, steps, engine, procs>>

\* the transaction pool and the state processor call IsUnauthorizedCrossMiningTx
\* on every transaction
CallIsUnauthorized ==
    /\ result.op = "none"
    /\ result' = [op |-> "guard", out |-> IsUnauthorizedCrossMiningTx(config, tx)]
    /\ UNCHANGED <<config, arch, tx, blockTime, edits, args, steps, engine, procs>>

Next ==
    \/ SetAuxPoWNil \/ SetHeaderNil \/ SetChain \/ SetNonce \/ SetBits
    \/ SetTimestamp \/ SetHeaderHash \/ SetPow \/ SetCoinbase \/ SetMerkleProof
    \/ SetMerkleRoot \/ SetTo \/ SetFrom \/ SetType \/ SetValue \/ SetData
    \/ SetBlockTime \/ VerifySeal \/ CallVerifyPoW \/ CallVerifyCoinbase
    \/ CallIsUnauthorized \/ MineCoinbase \/ CallGetMinerAddress

Spec == Init /\ [][Next]_vars

\* ------------------------------------------------------------------------
\* The reward functions called directly: every argument is drawn from a
\* bounded set, then one of the functions is applied to it.
\* ------------------------------------------------------------------------

\* the fork times of the model
ForkTimes == {1000, HeliumTime}

\* seconds since the fork, around every threshold of the schedule
Elapsed == { 0, SecondsPerDay - 1, SecondsPerDay, 2 * SecondsPerDay,
             3 * SecondsPerDay - 1, 3 * SecondsPerDay,
             SecondsPerMonth - 1, SecondsPerMonth, 57 * SecondsPerMonth,
             141 * SecondsPerMonth - 1, 141 * SecondsPerMonth,
             142 * SecondsPerMonth, 170 * SecondsPerMonth,
             \* the times of TestKaspaCrossMiningReward and TestTimePassedSinceFork
             100, 90000, 2853542, 9507700, 149907000,
             365 * SecondsPerDay, 366 * SecondsPerDay }

\* seconds before the fork
Early == {1, 1000}

Difficulties == { <<>>, <<1>>, <<1, 0>>, BigFromDec(<<999, 999>>),
                  BigFromDec(<<1, 0, 0, 0, 0, 0, 0>>),
                  BigSub(BigLsh(<<1>>, 63), <<1>>) }

Chains == {UnknownChain, KaspaChain, MoneroChain}

RewardArgs ==
    [isLithiumFork : BOOLEAN, chain : Chains, difficulty : Difficulties,
     forkTime : ForkTimes, time : {0}]

InitReward ==
    /\ config = ChainConfig
    /\ arch = "amd64"
    /\ blockTime = HeliumTime + 100
    /\ tx = BaseTx
    /\ edits = 0
    /\ result = NoResult
    /\ steps = <<>>
    /\ engine = NoEngine
    /\ procs = NoProcs
    /\ \E a \in RewardArgs :
         \E t \in {a.forkTime + e : e \in Elapsed} \cup {a.forkTime - e : e \in Early} :
             args = [a EXCEPT !.time = t]

\* CrossMiningReward(isLithiumFork, crossBlock, forkTime, time)
CallCrossMiningReward ==
    /\ result.op = "none"
    /\ result' = [op |-> "CrossMiningReward",
                  out |-> CrossMiningReward(args.isLithiumFork, args.chain, args.difficulty,
                                            args.forkTime, args.time)]
    /\ UNCHANGED <<config, arch, tx, blockTime, edits, args, steps, engine, procs>>

\* kaspaCrossMiningReward(isLithiumFork, difficulty, forkTime, time)
CallKaspaCrossMiningReward ==
    /\ result.op = "none"
    /\ result' = [op |-> "kaspaCrossMiningReward",
                  out |-> kaspaCrossMiningReward(args.isLithiumFork, args.difficulty,
                                                 args.forkTime, args.time)]
    /\ UNCHANGED <<config, arch, tx, blockTime, edits, args, steps, engine, procs>>

\* timePassedSinceFork(forkTime, time)
CallTimePassedSinceFork ==
    /\ result.op = "none"
    /\ result' = [op |-> "timePassedSinceFork",
                  out |-> timePassedSinceFork(args.forkTime, args.time)]
    /\ UNCHANGED <<config, arch, tx, blockTime, edits, args, steps, engine, procs>>

NextReward ==
    \/ CallCrossMiningReward \/ CallKaspaCrossMiningReward \/ CallTimePassedSinceFork

SpecReward == InitReward /\ [][NextReward]_vars

\* ------------------------------------------------------------------------
\* Properties of the verifier (under Spec)
\* ------------------------------------------------------------------------

\* VerifyCrossMiningTxSeal was called / returned nil
Sealed == result.op = "seal"
Accepted == Sealed /\ result.out = Nil

\* the foreign block, its millisecond timestamp, its difficulty, the reward
\* due for it under the parent at hand
Block == tx.AuxPoW
ForeignTimestamp == Block.Header.Ktimestamp
TxDifficulty == Difficulty(Block.Header.Kbits, arch)
TxReward ==
    CrossMiningReward(IsLithium(config, blockTime), Block.chain, TxDifficulty.val.mag,
                      config.HeliumTime, blockTime)

\* the address the coinbase payload ends with
PayloadMiner ==
    Hex2Bytes(SubSeq(Block.Coinbase.Payload,
                     Len(Block.Coinbase.Payload) - MinerAddressChars + 1,
                     Len(Block.Coinbase.Payload)))

\* the checks, one by one, as conditions on the transaction and the parent
HasBlock == ~Block.nil
StructurallyValid ==
    /\ ~Block.Header.nil /\ ~Block.Coinbase.nil
    /\ Block.Header.Knonce # 0 /\ Block.Header.Ktimestamp # <<>> /\ Block.Header.Kbits # 0
    /\ Block.Coinbase.Payload # <<>>
ChainActive == Block.chain = KaspaChain /\ blockTime >= config.HeliumTime
LithiumActive == Block.chain = KaspaChain /\ blockTime >= config.LithiumTime
HashBelowBound == BigCmp(Norm(Block.Header.hash), BigLsh(<<1>>, 247)) < 0
ReceiverOK == tx.to = config.MiningContract
DifficultyPositive == ~TxDifficulty.panic /\ Sign(TxDifficulty.val) > 0
DifficultyAtLeastMin ==
    IntCmp(TxDifficulty.val, MkInt(FALSE, config.MinimumKaspaDifficulty)) >= 0
TimestampNotBeforeFork == BigCmp(ForeignTimestamp, Millis(config.HeliumTime)) >= 0
TimestampNotInFuture ==
    BigCmp(ForeignTimestamp, BigAdd(Millis(blockTime), BigFromNat(12000))) <= 0
ValueOK == BigCmp(tx.value, TxReward) = 0
TargetOf(b) == CompactToBig(b.Header.Kbits)
PoWOK(b) ==
    /\ Sign(TargetOf(b)) > 0
    /\ BigCmp(TargetOf(b).mag, BigSub(BigLsh(<<1>>, 255), <<1>>)) <= 0
    /\ BigCmp(b.Header.pow, TargetOf(b).mag) <= 0
CoinbaseOK(b) ==
    /\ b.Coinbase.isCoinbase
    /\ \A i \in 1..Len(b.MerkleProof) : b.MerkleProof[i] # NilHash
    /\ BranchRoot(b.Coinbase.txHash, b.MerkleProof) = b.Header.KhashMerkleRoot
MinerOK ==
    /\ Len(Block.Coinbase.Payload) >= Len(minerTagPrefix) + MinerAddressChars
    /\ SubSeq(Block.Coinbase.Payload,
              Len(Block.Coinbase.Payload) - Len(minerTagPrefix) - MinerAddressChars + 1,
              Len(Block.Coinbase.Payload) - MinerAddressChars) = minerTagPrefix
ExpectedData == CallData(PayloadMiner, Block.chain, ForeignTimestamp)
DataOK == tx.data = ExpectedData

ChecksBeforeDifficulty ==
    /\ HasBlock /\ StructurallyValid /\ ChainActive
    /\ (LithiumActive => HashBelowBound)
    /\ ReceiverOK
ChecksBeforeTimestamp ==
    ChecksBeforeDifficulty /\ DifficultyPositive /\ DifficultyAtLeastMin
ChecksBeforeValue ==
    ChecksBeforeTimestamp /\ TimestampNotBeforeFork /\ TimestampNotInFuture
ChecksBeforeData ==
    ChecksBeforeValue /\ ValueOK /\ PoWOK(Block) /\ CoinbaseOK(Block) /\ MinerOK

\* C1: every accepted transaction carries exactly the reward as its value, and
\* a transaction that passes the checks before the value check with another
\* value, higher or lower, is rejected with ErrInvalidMiningTxValue.
C1_ValueEqualsReward ==
    Sealed =>
        /\ (result.out = Nil => ValueOK)
        /\ (ChecksBeforeValue /\ ~ValueOK => result.out = "ErrInvalidMiningTxValue")

\* a transaction paying one wei less than the reward under a Lithium parent,
\* rejected for its value
C1_Witness ==
    /\ Sealed /\ ChecksBeforeValue /\ LithiumActive
    /\ BigCmp(tx.value, TxReward) < 0 /\ tx.value # <<>>
    /\ result.out = "ErrInvalidMiningTxValue"

\* the error of the first check that fails, in the order nil block, structure,
\* activation, Lithium hash bound, receiver, positive difficulty, minimum
\* difficulty, fork time, future time, value, PoW, coinbase, miner, calldata
FirstFailure ==
    IF ~HasBlock THEN "ErrInvalidNilBlock"
    ELSE IF ~StructurallyValid THEN "ErrInvalidCrossChainBlock"
    ELSE IF ~ChainActive THEN "ErrInvalidMiningTimeLine"
    ELSE IF LithiumActive /\ ~HashBelowBound THEN "ErrInvalidBlockPoWHash"
    ELSE IF ~ReceiverOK THEN "ErrInvalidMiningReceiver"
    ELSE IF ~DifficultyPositive THEN "ErrInvalidDifficulty"
    ELSE IF ~DifficultyAtLeastMin THEN "ErrDifficultyUnderValue"
    ELSE IF ~TimestampNotBeforeFork THEN "ErrInvalidMiningBlockTime"
    ELSE IF ~TimestampNotInFuture THEN "ErrInvalidFutureBlock"
    ELSE IF ~ValueOK THEN "ErrInvalidMiningTxValue"
    ELSE IF ~PoWOK(Block) THEN "ErrInvalidMergePoW"
    ELSE IF ~CoinbaseOK(Block) THEN "ErrInvalidMergeCoinbase"
    ELSE IF ~MinerOK THEN GetMinerAddress(Block).err
    ELSE IF ~DataOK THEN "ErrInvalidMiningInput"
    ELSE Nil

\* C2: every call returns the error of the first failing check in the fixed
\* order, and nil exactly when every check passes.
C2_FirstFailingCheck == Sealed => result.out = FirstFailure

\* a call on a block whose bits are non-zero but decode to a zero target: it
\* passes the checks before the difficulty and then does not return
C2_Abort == Sealed /\ ChecksBeforeDifficulty /\ TxDifficulty.panic /\ result.out = "panic"

\* the order of the checks on every call that returns
C2_OrderWhenReturning == Sealed /\ result.out # "panic" => result.out = FirstFailure

\* C3: on a transaction that passes the checks before them, the timestamp
\* checks reject a foreign timestamp below HeliumTime * 1000 with
\* ErrInvalidMiningBlockTime and one above parent.time * 1000 + 12000 with
\* ErrInvalidFutureBlock, and reject nothing from HeliumTime * 1000 to
\* parent.time * 1000 + 12000, both included.
C3_TimestampBounds ==
    Sealed /\ ChecksBeforeTimestamp =>
        /\ (~TimestampNotBeforeFork => result.out = "ErrInvalidMiningBlockTime")
        /\ (~TimestampNotInFuture => result.out = "ErrInvalidFutureBlock")
        /\ (TimestampNotBeforeFork /\ TimestampNotInFuture =>
                result.out \notin {"ErrInvalidMiningBlockTime", "ErrInvalidFutureBlock"})

\* a transaction whose foreign timestamp is exactly parent.time * 1000 + 12000,
\* accepted
C3_Witness ==
    /\ Accepted
    /\ ForeignTimestamp = BigAdd(Millis(blockTime), BigFromNat(12000))

\* C4: on a transaction that passes the checks before the calldata check, the
\* call returns nil when tx.data is the 100 bytes selector ++ pad32(miner) ++
\* pad32(chain) ++ pad32(timestamp), with the miner of the coinbase payload,
\* and ErrInvalidMiningInput for any other data; the expected bytes are
\* computed from the foreign block alone.
C4_Calldata ==
    /\ Accepted => DataOK /\ Len(tx.data) = 100
    /\ Sealed /\ ChecksBeforeData =>
           result.out = (IF DataOK THEN Nil ELSE "ErrInvalidMiningInput")

\* an accepted transaction sent from an address that is not the miner of the
\* payload, to which its calldata pays
C4_Witness ==
    /\ Accepted /\ edits > 0
    /\ tx.from # PayloadMiner
    /\ SubSeq(tx.data, 17, 36) = PayloadMiner

\* C8 (as claimed): under a Lithium parent a Kaspa transaction is accepted only
\* if the value the PoW check compares with the target is below 2^247.
C8_PowValueBelowBound ==
    Accepted /\ LithiumActive => BigCmp(Block.Header.pow, BigLsh(<<1>>, 247)) < 0

\* what the filter does bound: the header hash printed by BlockHash; it is
\* applied under a Lithium parent only, before and besides the PoW check
C8_HeaderHashFilter ==
    Sealed =>
        /\ (Accepted /\ LithiumActive => HashBelowBound /\ PoWOK(Block))
        /\ (HasBlock /\ StructurallyValid /\ ChainActive /\ LithiumActive /\ ~HashBelowBound
                => result.out = "ErrInvalidBlockPoWHash")
        /\ (~LithiumActive => result.out # "ErrInvalidBlockPoWHash")

\* C9: VerifyPoW returns nil if and only if the target decoded from the bits is
\* in 1 .. 2^255 - 1 and the PoW value is at most the target.
C9_VerifyPoW ==
    result.op = "pow" => (result.out = Nil <=> PoWOK(Block))

\* a PoW value exactly equal to the target, accepted
C9_Witness ==
    /\ result.op = "pow" /\ result.out = Nil
    /\ Block.Header.pow = TargetOf(Block).mag

\* C10: VerifyCoinbase is true if and only if the coinbase is one and the
\* branch, folded from the coinbase hash with the accumulator on the left and
\* no nil sibling, gives the Merkle root of the header; when it is true,
\* replacing any one sibling makes it false.
C10_VerifyCoinbase ==
    result.op = "coinbase" =>
        /\ result.out = CoinbaseOK(Block)
        /\ (result.out =>
              \A i \in 1..Len(Block.MerkleProof) :
                \A h \in (0..(HashAtoms - 1)) \cup {NilHash} :
                   h # Block.MerkleProof[i] =>
                     ~VerifyCoinbase([Block EXCEPT !.MerkleProof[i] = h]))

\* a branch of two siblings that verifies
C10_Witness ==
    /\ result.op = "coinbase" /\ result.out = TRUE
    /\ Len(Block.MerkleProof) = 2

\* C5: IsUnauthorizedCrossMiningTx is true if and only if the receiver is the
\* mining contract, the data starts with the four bytes 0x97b8f2fc, and the
\* type is not CrossMiningTxType.
C5_Unauthorized ==
    result.op = "guard" =>
        (result.out <=>
            /\ tx.to # <<>> /\ tx.to = config.MiningContract
            /\ Len(tx.data) >= 4
            /\ \A i \in 1..4 : Len(tx.data) >= i => tx.data[i] = <<151, 184, 242, 252>>[i]
            /\ tx.type # "CrossMiningTx")

\* a transaction of another type calling crossMining on the contract, flagged
C5_Witness ==
    /\ result.op = "guard" /\ result.out = TRUE
    /\ tx.type \in OtherTxTypes

\* ------------------------------------------------------------------------
\* Properties of the reward functions (under SpecReward)
\* ------------------------------------------------------------------------

\* q = floor(n / d)
IsFloorOf(q, n, d) ==
    /\ BigCmp(BigMulSmall(q, d), n) <= 0
    /\ BigCmp(n, BigMulSmall(BigAdd(q, <<1>>), d)) < 0

\* the base reward of the schedule: by day during the first three days, then
\* by 30-day month up to month 141, the last entry from then on
ScheduleBase(isLithiumFork, elapsed) ==
    IF elapsed \div 86400 < 3
      THEN <<600000, 400000, 200000>>[elapsed \div 86400 + 1]
    ELSE IF elapsed \div 2592000 < 141
      THEN (IF isLithiumFork THEN KaspaCrossMiningLithiumBaseRewards
                             ELSE KaspaCrossMiningBaseRewards)[elapsed \div 2592000 + 1]
    ELSE (IF isLithiumFork THEN KaspaCrossMiningLithiumBaseRewards
                           ELSE KaspaCrossMiningBaseRewards)[142]

\* C6: kaspaCrossMiningReward is floor(d * base / 1000000) with the base of the
\* schedule, and yields a number for every time.
C6_KaspaReward ==
    result.op = "kaspaCrossMiningReward" =>
        /\ result.out \in Seq(0..255)
        /\ (args.time >= args.forkTime =>
              IsFloorOf(result.out,
                        BigMul(args.difficulty,
                               BigFromNat(ScheduleBase(args.isLithiumFork,
                                                       args.time - args.forkTime))),
                        1000000))

\* the plateau: a reward computed 170 months after the fork
C6_Witness ==
    /\ result.op = "kaspaCrossMiningReward"
    /\ args.time = args.forkTime + 170 * SecondsPerMonth
    /\ args.isLithiumFork /\ result.out # <<>>

\* C7: CrossMiningReward is 0 for every time before the fork and for every
\* chain other than Kaspa.
C7_ZeroReward ==
    result.op = "CrossMiningReward" /\ (args.time < args.forkTime \/ args.chain # KaspaChain)
        => result.out = <<>>

\* a Kaspa block of non-zero difficulty under a parent before the fork
C7_Witness ==
    /\ result.op = "CrossMiningReward" /\ result.out = <<>>
    /\ args.chain = KaspaChain /\ args.time < args.forkTime
    /\ args.isLithiumFork /\ args.difficulty # <<>>

\* ---------------------------------------------------------------------------
\* the miner's address in the coinbase payload

TagLiteral == <<99, 97, 110, 120, 105, 117, 109, 105, 110, 101, 114, 58>>   \* "canxiuminer:"

\* the value of a hexadecimal digit, -1 for any other character
DigitValue(c) ==
    IF c \in 48..57 THEN c - 48
    ELSE IF c \in 97..102 THEN c - 87
    ELSE IF c \in 65..70 THEN c - 55
    ELSE -1

AllDigits(chars) == \A i \in 1..Len(chars) : DigitValue(chars[i]) # -1

\* the number of leading character pairs that are two digits each
DigitPairs(chars) ==
    Greatest({k \in 0..(Len(chars) \div 2) :
                 \A i \in 1..(2 * k) : DigitValue(chars[i]) # -1})

\* the address the characters spell: the bytes of the leading digit pairs,
\* zeros in front up to twenty bytes
AddressOfChars(chars) ==
    [i \in 1..20 |->
        IF i <= 20 - DigitPairs(chars) THEN 0
        ELSE 16 * DigitValue(chars[2 * (i - 20 + DigitPairs(chars)) - 1])
                + DigitValue(chars[2 * (i - 20 + DigitPairs(chars))])]

LastChars(p, n) == SubSeq(p, Len(p) - n + 1, Len(p))

\* C11: GetMinerAddress fails when the payload has fewer than 52 bytes or when
\* its last 52 bytes do not begin with "canxiuminer:"; otherwise it returns
\* without error the 20-byte address spelled by the last 40 characters, whatever
\* bytes precede the last 52.
C11_GetMinerAddress ==
    result.op = "miner" =>
        /\ Len(minerTagPrefix) + MinerAddressChars = 52
        /\ IF Len(Block.Coinbase.Payload) < 52
             THEN result.out.err = "invalid payload length"
           ELSE IF SubSeq(LastChars(Block.Coinbase.Payload, 52), 1, 12) # TagLiteral
             THEN result.out.err = "invalid payload tag"
           ELSE /\ result.out.err = Nil
                /\ result.out.addr = AddressOfChars(LastChars(Block.Coinbase.Payload, 40))

C11_Witness ==
    /\ result.op = "miner"
    /\ result.out.err = Nil
    /\ Len(Block.Coinbase.Payload) > 52
    /\ AllDigits(LastChars(Block.Coinbase.Payload, 40))
    /\ result.out.addr = MinerAddress

\* C12: an accepted transaction's coinbase payload ends with "canxiuminer:"
\* followed by 40 hexadecimal digits.
C12_HexAddress ==
    Accepted =>
        /\ Len(Block.Coinbase.Payload) >= 52
        /\ SubSeq(LastChars(Block.Coinbase.Payload, 52), 1, 12) = TagLiteral
        /\ AllDigits(LastChars(Block.Coinbase.Payload, 40))

\* an accepted transaction whose payload has a character that is no digit
C12_NotHexAccepted ==
    /\ Accepted
    /\ Len(Block.Coinbase.Payload) >= 52
    /\ ~AllDigits(LastChars(Block.Coinbase.Payload, 40))

\* ---------------------------------------------------------------------------
\* the reward values of the tests

TenTo18 == BigFromDec(<<1, 0, 0, 0, 0, 0, 0>>)

\* thousands * 10^15 wei
Finney(thousands) == BigFromDec(thousands \o <<0, 0, 0, 0, 0>>)

TestCall ==
    /\ result.op = "kaspaCrossMiningReward"
    /\ args.isLithiumFork
    /\ args.difficulty = TenTo18
    /\ args.forkTime = HeliumTime

\* C16: with difficulty 10^18, fork time 1704067200 and the Lithium flag,
\* kaspaCrossMiningReward returns 183829 * 10^15 at parent time 1704326400
\* (day 3, month 0), 91915 * 10^15 in month 1, 25868 * 10^15 in month 3,
\* 4875 * 10^15 in month 57, and 600, 400 and 200 * 10^15 on days 0, 1 and 2.
C16_LithiumValues ==
    TestCall =>
        /\ args.time = 1704326400 => result.out = Finney(<<183, 829>>)
        /\ args.time \in {1706659200, 1706920742} => result.out = Finney(<<91, 915>>)
        /\ args.time = 1713574900 => result.out = Finney(<<25, 868>>)
        /\ args.time = 1853974200 => result.out = Finney(<<4, 875>>)
        /\ args.time = 1704067300 => result.out = Finney(<<600>>)
        /\ args.time = 1704157200 => result.out = Finney(<<400>>)
        /\ args.time = 1704240000 => result.out = Finney(<<200>>)

\* the call of the test for day 3, and what it returns: 94120448 * 10^12
C16_Day3 ==
    /\ TestCall
    /\ args.time = 1704326400
    /\ result.out = BigFromDec(<<94, 120, 448, 0, 0, 0, 0>>)

\* the three incentive days are the same under both flags
C16_IncentiveDays ==
    /\ result.op = "kaspaCrossMiningReward"
    /\ args.difficulty = TenTo18 /\ args.forkTime = HeliumTime
    => /\ args.time = 1704067300 => result.out = Finney(<<600>>)
       /\ args.time = 1704157200 => result.out = Finney(<<400>>)
       /\ args.time = 1704240000 => result.out = Finney(<<200>>)

\* ---------------------------------------------------------------------------
\* days and months since the fork

SinceFork == args.time - args.forkTime

\* C17: timePassedSinceFork returns (0, 0) before the fork and otherwise the
\* whole days and the whole 30-day months elapsed: (0,0) at the fork and
\* 86399 s later, (1,0) at 86400 s, (29,0) at 2591999 s, (30,1) at 2592000 s;
\* the month count never exceeds day / 30.
C17_TimePassed ==
    result.op = "timePassedSinceFork" =>
        /\ args.time < args.forkTime => result.out = [dayNum |-> 0, month |-> 0]
        /\ args.time >= args.forkTime =>
             /\ result.out.dayNum * 86400 <= SinceFork
             /\ SinceFork < (result.out.dayNum + 1) * 86400
             /\ result.out.month * 2592000 <= SinceFork
             /\ SinceFork < (result.out.month + 1) * 2592000
        /\ SinceFork \in {0, 86399} => result.out = [dayNum |-> 0, month |-> 0]
        /\ SinceFork = 86400 => result.out = [dayNum |-> 1, month |-> 0]
        /\ SinceFork = 2591999 => result.out = [dayNum |-> 29, month |-> 0]
        /\ SinceFork = 2592000 => result.out = [dayNum |-> 30, month |-> 1]
        /\ result.out.month <= result.out.dayNum \div 30

C17_Witness ==
    /\ result.op = "timePassedSinceFork"
    /\ SinceFork = 2592000
    /\ result.out = [dayNum |-> 30, month |-> 1]

\* C18 as stated: 31,536,000 seconds after the fork, 366 days and 12 months
\* have passed.
C18_OneYear ==
    result.op = "timePassedSinceFork" /\ SinceFork = 31536000
        => result.out = [dayNum |-> 366, month |-> 12]

\* C18: 31,536,000 seconds after the fork, 365 days and 12 months have passed;
\* 366 days have passed 31,622,400 seconds after the fork.
C18_OneYearAmended ==
    result.op = "timePassedSinceFork" =>
        /\ SinceFork = 31536000 => result.out = [dayNum |-> 365, month |-> 12]
        /\ SinceFork = 31622400 => result.out = [dayNum |-> 366, month |-> 12]

C18_Witness ==
    /\ result.op = "timePassedSinceFork"
    /\ args.forkTime = HeliumTime
    /\ args.time = HeliumTime + 31536000
    /\ result.out.dayNum = 365

\* ---------------------------------------------------------------------------
\* calls that do not return

\* C19: every call of VerifyCrossMiningTxSeal returns nil or an error; bits
\* that decode to a zero target or to a negative target give an error.
C19_NeverAborts ==
    Sealed =>
        /\ result.out # "panic"
        /\ ChecksBeforeDifficulty /\ Sign(CompactToBig(Block.Header.Kbits)) <= 0
             => result.out = "ErrInvalidDifficulty"

\* non-zero bits with a zero mantissa: the call aborts in Difficulty
C19_ZeroTargetAbort ==
    /\ Sealed
    /\ Block.Header.Kbits # 0
    /\ Sign(CompactToBig(Block.Header.Kbits)) = 0
    /\ result.out = "panic"

\* a negative target is rejected by the difficulty check
C19_NegativeTargetRejected ==
    Sealed /\ ChecksBeforeDifficulty /\ Sign(CompactToBig(Block.Header.Kbits)) < 0
        => result.out = "ErrInvalidDifficulty"

\* ---------------------------------------------------------------------------
\* the verifier and its inputs

SealCall == result.op = "none" /\ result'.op = "seal"

\* C20: a call of VerifyCrossMiningTxSeal, accepted or rejected, leaves the
\* transaction and its foreign block as they were: every write of the PoW
\* check goes to a clone of the header, never to the header of the block.
C20_InputsUnchanged ==
    [][SealCall =>
          /\ tx' = tx
          /\ \A i \in 1..Len(steps') : steps'[i].header = tx.AuxPoW.Header
          /\ \A i \in 1..Len(steps') :
                /\ steps'[i].clone.Kbits = tx.AuxPoW.Header.Kbits
                /\ steps'[i].clone.KhashMerkleRoot = tx.AuxPoW.Header.KhashMerkleRoot
          /\ result'.out \in AfterVerifyPoW =>
                /\ Len(steps') = 5
                /\ steps'[1].clone = tx.AuxPoW.Header
                /\ steps'[3].clone.Knonce = 0 /\ steps'[3].clone.Ktimestamp = <<>>
                /\ steps'[5].clone = tx.AuxPoW.Header]_vars

\* an accepted call whose PoW check wrote to the clone
C20_Witness ==
    /\ Accepted
    /\ Len(steps) = 5
    /\ steps[3].clone.Knonce = 0
    /\ steps[3].header.Knonce # 0
    /\ steps[5].header = tx.AuxPoW.Header

\* ------------------------------------------------------------------------
\* The wire format: package rlp as the encoders and decoders of
\* tx_cross_mining.go and merge_kaspa_block.go use it.  An encoding is a
\* byte string; a decoded item is [kind, content] with kind "string" or
\* "list"; an unsigned integer is the byte string of its value (big-endian,
\* no leading zeros), as math/big values are.
\* ------------------------------------------------------------------------

RECURSIVE Concat(_)
Concat(ss) == IF ss = <<>> THEN <<>> ELSE Head(ss) \o Concat(Tail(ss))

\* the head of a string (offset 128) or of a list (offset 192) of n bytes
RlpHead(offset, n) ==
    IF n <= 55 THEN <<offset + n>>
    ELSE <<offset + 55 + Len(BigFromNat(n))>> \o BigFromNat(n)

\* rlp.Encode of a []byte, and of an integer given by its bytes
RlpString(b) ==
    IF Len(b) = 1 /\ b[1] < 128 THEN b ELSE RlpHead(128, Len(b)) \o b

\* rlp.Encode of a list whose encoded elements are given
RlpList(encodedItems) == RlpHead(192, Len(Concat(encodedItems))) \o Concat(encodedItems)

RlpError(e) == [err |-> e, kind |-> "string", content |-> <<>>, rest |-> <<>>]

\* the item whose head takes hdr bytes and whose content takes n
RlpSized(b, kind, hdr, n) ==
    IF Len(b) < hdr + n THEN RlpError("ErrValueTooLarge")
    ELSE IF kind = "string" /\ n = 1 /\ b[hdr + 1] < 128 THEN RlpError("ErrCanonSize")
    ELSE [err |-> Nil, kind |-> kind, content |-> SubSeq(b, hdr + 1, hdr + n),
          rest |-> SubSeq(b, hdr + n + 1, Len(b))]

\* the item whose size is written in ll bytes after the first
RlpLong(b, kind, ll) ==
    IF Len(b) < 1 + ll THEN RlpError("ErrUnexpectedEOF")
    ELSE IF b[2] = 0 \/ ll > 3 THEN RlpError("ErrCanonSize")
    ELSE IF BigToNat(SubSeq(b, 2, 1 + ll)) < 56 THEN RlpError("ErrCanonSize")
    ELSE RlpSized(b, kind, 1 + ll, BigToNat(SubSeq(b, 2, 1 + ll)))

\* Stream.readKind and the content that follows: the first item of b and the
\* bytes after it
RlpRead(b) ==
    IF b = <<>> THEN RlpError("EOF")
    ELSE IF b[1] < 128 THEN [err |-> Nil, kind |-> "string", content |-> <<b[1]>>,
                             rest |-> Tail(b)]
    ELSE IF b[1] < 184 THEN RlpSized(b, "string", 1, b[1] - 128)
    ELSE IF b[1] < 192 THEN RlpLong(b, "string", b[1] - 183)
    ELSE IF b[1] < 248 THEN RlpSized(b, "list", 1, b[1] - 192)
    ELSE RlpLong(b, "list", b[1] - 247)

\* the items of a list's content
RECURSIVE RlpItems(_)
RlpItemsJoin(first, others) ==
    IF others.err # Nil THEN others
    ELSE [err |-> Nil,
          items |-> <<[err |-> Nil, kind |-> first.kind, content |-> first.content]>>
                        \o others.items]
RlpItemsAfter(first) ==
    IF first.err # Nil THEN [err |-> first.err, items |-> <<>>]
    ELSE CHOOSE r \in {RlpItemsJoin(first, others) : others \in {RlpItems(first.rest)}} : TRUE
RlpItems(payload) ==
    IF payload = <<>> THEN [err |-> Nil, items |-> <<>>]
    ELSE CHOOSE r \in {RlpItemsAfter(first) : first \in {RlpRead(payload)}} : TRUE

RlpOne(first) ==
    IF first.err # Nil THEN first
    ELSE IF first.rest # <<>> THEN RlpError("ErrMoreThanOneValue")
    ELSE first

\* rlp.DecodeBytes: one item and nothing after it
RlpDecodeBytes(b) == CHOOSE r \in {RlpOne(first) : first \in {RlpRead(b)}} : TRUE

\* the content of a list of exactly n elements, as rlp decodes a struct
RlpFieldsOf(n, its) ==
    IF its.err # Nil THEN its
    ELSE IF Len(its.items) < n THEN [err |-> "too few elements", items |-> <<>>]
    ELSE IF Len(its.items) > n THEN [err |-> "ErrExpectedEOL", items |-> <<>>]
    ELSE its
RlpStruct(item, n) ==
    IF item.err # Nil THEN [err |-> item.err, items |-> <<>>]
    ELSE IF item.kind # "list" THEN [err |-> "ErrExpectedList", items |-> <<>>]
    ELSE CHOOSE r \in {RlpFieldsOf(n, its) : its \in {RlpItems(item.content)}} : TRUE

\* decoding into uint16/uint32/uint64 (maxLen bytes) and *big.Int (maxLen 0:
\* any size): Nil or the error
RlpUintErr(item, maxLen) ==
    IF item.kind # "string" THEN "ErrExpectedString"
    ELSE IF item.content # <<>> /\ item.content[1] = 0 THEN "ErrCanonInt"
    ELSE IF maxLen > 0 /\ Len(item.content) > maxLen THEN "ErrUintOverflow"
    ELSE Nil

\* decoding into []byte, and into [n]byte
RlpBytesErr(item) == IF item.kind # "string" THEN "ErrExpectedString" ELSE Nil
RlpArrayErr(item, n) ==
    IF item.kind # "string" THEN "ErrExpectedString"
    ELSE IF Len(item.content) < n THEN "input string too short"
    ELSE IF Len(item.content) > n THEN "input string too long"
    ELSE Nil

\* the first error of a sequence of results
FirstError(errs) ==
    IF \A i \in 1..Len(errs) : errs[i] = Nil THEN Nil
    ELSE errs[Least({i \in 1..Len(errs) : errs[i] # Nil})]

\* ------------------------------------------------------------------------
\* The Kaspa block on the wire.  A *DomainHash is NoHash (nil) or 32 bytes;
\* uint64 and *big.Int fields are byte strings of their value, uint16 and
\* uint32 fields are integers.
\* ------------------------------------------------------------------------

DomainHashSize == 32
NoHash == <<>>

\* DomainHash.ByteSlice
ByteSlice(hash) == hash

\* var hashArray [32]byte; copy(hashArray[:], data); NewDomainHashFromByteArray
NewDomainHashFromCopy(data) ==
    [i \in 1..DomainHashSize |-> IF i <= Len(data) THEN data[i] ELSE 0]

encodeParent(parent) == RlpString(IF parent = NoHash THEN <<>> ELSE ByteSlice(parent))
encodeLevel(levelParents) ==
    RlpList([j \in 1..Len(levelParents) |-> encodeParent(levelParents[j])])

\* encodeBlockLevelParentsList
encodeBlockLevelParentsList(parents) ==
    RlpList([i \in 1..Len(parents) |-> encodeLevel(parents[i])])

NoParents(e) == [err |-> e, parents |-> <<>>]

\* the loop of decodeBlockLevelParentsList over the decoded [][][]byte
ParentsOfLevels(decoded) ==
    IF \E i \in 1..Len(decoded) : \E j \in 1..Len(decoded[i]) :
           Len(decoded[i][j]) # 0 /\ Len(decoded[i][j]) # DomainHashSize
      THEN NoParents("invalid DomainHash size")
    ELSE [err |-> Nil,
          parents |-> [i \in 1..Len(decoded) |->
                          [j \in 1..Len(decoded[i]) |->
                              IF Len(decoded[i][j]) = 0 THEN NoHash
                              ELSE NewDomainHashFromCopy(decoded[i][j])]]]

\* rlp.DecodeBytes(data, &decoded) for [][]byte and [][][]byte: [err, value]
ByteStringsOf(its) ==
    IF its.err # Nil THEN [err |-> its.err, value |-> <<>>]
    ELSE IF \E i \in 1..Len(its.items) : its.items[i].kind # "string"
      THEN [err |-> "ErrExpectedString", value |-> <<>>]
    ELSE [err |-> Nil, value |-> [i \in 1..Len(its.items) |-> its.items[i].content]]
ByteStringList(item) ==
    IF item.err # Nil THEN [err |-> item.err, value |-> <<>>]
    ELSE IF item.kind # "list" THEN [err |-> "ErrExpectedList", value |-> <<>>]
    ELSE CHOOSE r \in {ByteStringsOf(its) : its \in {RlpItems(item.content)}} : TRUE
ByteStringListsOf(levels) ==
    IF \E i \in 1..Len(levels) : levels[i].err # Nil
      THEN [err |-> FirstError([i \in 1..Len(levels) |-> levels[i].err]), value |-> <<>>]
    ELSE [err |-> Nil, value |-> [i \in 1..Len(levels) |-> levels[i].value]]
ByteStringLists(item) ==
    IF item.err # Nil THEN [err |-> item.err, value |-> <<>>]
    ELSE IF item.kind # "list" THEN [err |-> "ErrExpectedList", value |-> <<>>]
    ELSE CHOOSE r \in
           { IF its.err # Nil THEN [err |-> its.err, value |-> <<>>]
             ELSE ByteStringListsOf([i \in 1..Len(its.items) |-> ByteStringList(its.items[i])]) :
               its \in {RlpItems(item.content)} } : TRUE

\* decodeBlockLevelParentsList: [err, parents]
decodeBlockLevelParentsList(data) ==
    CHOOSE r \in
      { IF decoded.err # Nil THEN NoParents(decoded.err) ELSE ParentsOfLevels(decoded.value) :
          decoded \in {ByteStringLists(RlpDecodeBytes(data))} } : TRUE

\* encodeDomainHash
encodeDomainHash(domainHash) == IF domainHash = NoHash THEN <<>> ELSE ByteSlice(domainHash)

\* decodeDomainHash: [err, hash]
decodeDomainHash(data) ==
    IF Len(data) # 32 THEN [err |-> "invalid data size", hash |-> NoHash]
    ELSE [err |-> Nil, hash |-> NewDomainHashFromCopy(data)]

\* a variant that writes the blue score before the DAA score
HeaderEncodeRLPSwapped(header) ==
    RlpList(<< RlpString(BigFromNat(header.Kversion)),
               RlpString(encodeBlockLevelParentsList(header.Kparents)),
               RlpString(encodeDomainHash(header.KhashMerkleRoot)),
               RlpString(encodeDomainHash(header.KacceptedIDMerkleRoot)),
               RlpString(encodeDomainHash(header.KutxoCommitment)),
               RlpString(header.Ktimestamp),
               RlpString(BigFromNat(header.Kbits)),
               RlpString(header.Knonce),
               RlpString(header.KblueScore),
               RlpString(header.KdaaScore),
               RlpString(header.KblueWork),
               RlpString(encodeDomainHash(header.KpruningPoint)) >>)

\* KaspaBlockHeader.EncodeRLP
HeaderEncodeRLP(header) ==
    RlpList(<< RlpString(BigFromNat(header.Kversion)),
               RlpString(encodeBlockLevelParentsList(header.Kparents)),
               RlpString(encodeDomainHash(header.KhashMerkleRoot)),
               RlpString(encodeDomainHash(header.KacceptedIDMerkleRoot)),
               RlpString(encodeDomainHash(header.KutxoCommitment)),
               RlpString(header.Ktimestamp),
               RlpString(BigFromNat(header.Kbits)),
               RlpString(header.Knonce),
               RlpString(header.KdaaScore),
               RlpString(header.KblueScore),
               RlpString(header.KblueWork),
               RlpString(encodeDomainHash(header.KpruningPoint)) >>)

NoHeader ==
    [nil |-> TRUE, Kversion |-> 0, Kparents |-> <<>>, KhashMerkleRoot |-> NoHash,
     KacceptedIDMerkleRoot |-> NoHash, KutxoCommitment |-> NoHash, Ktimestamp |-> <<>>,
     Kbits |-> 0, Knonce |-> <<>>, KdaaScore |-> <<>>, KblueScore |-> <<>>,
     KblueWork |-> <<>>, KpruningPoint |-> NoHash]

\* s.Decode(&decoded) into RlpKaspaBlockHeader: the error of the first field
\* that does not fit its type
RlpKaspaBlockHeaderErr(f) ==
    IF f.err # Nil THEN f.err
    ELSE FirstError(<< RlpUintErr(f.items[1], 2), RlpBytesErr(f.items[2]),
                       RlpBytesErr(f.items[3]), RlpBytesErr(f.items[4]),
                       RlpBytesErr(f.items[5]), RlpUintErr(f.items[6], 8),
                       RlpUintErr(f.items[7], 4), RlpUintErr(f.items[8], 8),
                       RlpUintErr(f.items[9], 8), RlpUintErr(f.items[10], 8),
                       RlpUintErr(f.items[11], 0), RlpBytesErr(f.items[12]) >>)

\* the assignments of KaspaBlockHeader.DecodeRLP once every part decoded
HeaderOfParts(f, parents, root, accepted, utxo, pruning) ==
    IF FirstError(<<parents.err, root.err, accepted.err, utxo.err, pruning.err>>) # Nil
      THEN [err |-> FirstError(<<parents.err, root.err, accepted.err, utxo.err, pruning.err>>),
            header |-> NoHeader]
    ELSE [err |-> Nil,
          header |-> [nil |-> FALSE,
                      Kversion |-> BigToNat(f.items[1].content),
                      Kparents |-> parents.parents,
                      KhashMerkleRoot |-> root.hash,
                      KacceptedIDMerkleRoot |-> accepted.hash,
                      KutxoCommitment |-> utxo.hash,
                      Ktimestamp |-> f.items[6].content,
                      Kbits |-> BigToNat(f.items[7].content),
                      Knonce |-> f.items[8].content,
                      KdaaScore |-> f.items[9].content,
                      KblueScore |-> f.items[10].content,
                      KblueWork |-> f.items[11].content,
                      KpruningPoint |-> pruning.hash]]

HeaderOfFields(f) ==
    IF RlpKaspaBlockHeaderErr(f) # Nil
      THEN [err |-> RlpKaspaBlockHeaderErr(f), header |-> NoHeader]
    ELSE CHOOSE r \in
           { HeaderOfParts(f, parents, root, accepted, utxo, pruning) :
               parents \in {decodeBlockLevelParentsList(f.items[2].content)},
               root \in {decodeDomainHash(f.items[3].content)},
               accepted \in {decodeDomainHash(f.items[4].content)},
               utxo \in {decodeDomainHash(f.items[5].content)},
               pruning \in {decodeDomainHash(f.items[12].content)} } : TRUE

\* KaspaBlockHeader.DecodeRLP on the item at hand: [err, header]
HeaderDecodeRLP(item) ==
    CHOOSE r \in {HeaderOfFields(f) : f \in {RlpStruct(item, 12)}} : TRUE

\* encodeMerkleProof; hash.ByteSlice() of a nil sibling does not return, which
\* EncodeCrossChainBlock accounts for
encodeMerkleProof(proof) ==
    RlpList([i \in 1..Len(proof) |-> RlpString(ByteSlice(proof[i]))])

\* the loop of decodeMerkleProof over the decoded [][]byte
MerkleProofOfStrings(decoded) ==
    IF decoded.err # Nil THEN [err |-> decoded.err, proof |-> <<>>]
    ELSE [err |-> Nil,
          proof |-> [i \in 1..Len(decoded.value) |-> NewDomainHashFromCopy(decoded.value[i])]]

\* decodeMerkleProof: [err, proof]
decodeMerkleProof(data) ==
    CHOOSE r \in {MerkleProofOfStrings(decoded) :
                    decoded \in {ByteStringList(RlpDecodeBytes(data))}} : TRUE

\* externalapi.DomainTransaction through package rlp: the list of its fields
\* (Version, Inputs, Outputs, LockTime, SubnetworkID, Gas, Payload, Fee, Mass,
\* ID).  The model's coinbase has a subnetwork, a payload and txHash, which
\* stands for the rest of its content and travels in the place of LockTime.
SubnetworkIDCoinbase == <<1>> \o Zeros(19)
SubnetworkIDNative == Zeros(20)

CoinbaseEncode(cb) ==
    IF cb.nil THEN RlpList(<<>>)
    ELSE RlpList(<< RlpString(<<>>), RlpList(<<>>), RlpList(<<>>),
                    RlpString(BigFromNat(cb.txHash)),
                    RlpString(IF cb.isCoinbase THEN SubnetworkIDCoinbase
                              ELSE SubnetworkIDNative),
                    RlpString(<<>>), RlpString(cb.Payload), RlpString(<<>>),
                    RlpString(<<>>), RlpList(<<>>) >>)

NoCoinbase == [nil |-> TRUE, isCoinbase |-> FALSE, txHash |-> 0, Payload |-> <<>>]

CoinbaseOfFields(f) ==
    IF f.err # Nil THEN [err |-> f.err, cb |-> NoCoinbase]
    ELSE IF FirstError(<< RlpUintErr(f.items[1], 2), RlpUintErr(f.items[4], 8),
                          RlpArrayErr(f.items[5], 20), RlpUintErr(f.items[6], 8),
                          RlpBytesErr(f.items[7]), RlpUintErr(f.items[8], 8),
                          RlpUintErr(f.items[9], 8) >>) # Nil
      THEN [err |-> "rlp: coinbase", cb |-> NoCoinbase]
    ELSE IF f.items[2].kind # "list" \/ f.items[3].kind # "list" \/ f.items[10].kind # "list"
      THEN [err |-> "ErrExpectedList", cb |-> NoCoinbase]
    ELSE [err |-> Nil,
          cb |-> [nil |-> FALSE, isCoinbase |-> f.items[5].content = SubnetworkIDCoinbase,
                  txHash |-> BigToNat(f.items[4].content), Payload |-> f.items[7].content]]

CoinbaseDecode(item) ==
    CHOOSE r \in {CoinbaseOfFields(f) : f \in {RlpStruct(item, 10)}} : TRUE

\* KaspaBlock.EncodeRLP
BlockEncodeRLP(block) ==
    RlpList(<< IF block.Header.nil THEN RlpList(<<>>) ELSE HeaderEncodeRLP(block.Header),
               RlpString(encodeMerkleProof(block.MerkleProof)),
               CoinbaseEncode(block.Coinbase) >>)

\* the zero KaspaBlock, and no block at all
ZeroBlock ==
    [nil |-> FALSE, chain |-> KaspaChain, Header |-> NoHeader, MerkleProof |-> <<>>,
     Coinbase |-> NoCoinbase]
NoBlock == [ZeroBlock EXCEPT !.nil = TRUE, !.chain = UnknownChain]

\* KaspaBlock.DecodeRLP once s.Decode(&decoded) filled RlpKaspaBlock
BlockOfParts(header, proofBytes, coinbase, merkleProof) ==
    IF FirstError(<<header.err, RlpBytesErr(proofBytes), coinbase.err>>) # Nil
      THEN [err |-> FirstError(<<header.err, RlpBytesErr(proofBytes), coinbase.err>>),
            block |-> ZeroBlock]
    ELSE IF merkleProof.err # Nil
      THEN [err |-> merkleProof.err,
            block |-> [ZeroBlock EXCEPT !.Header = header.header, !.Coinbase = coinbase.cb]]
    ELSE [err |-> Nil,
          block |-> [nil |-> FALSE, chain |-> KaspaChain, Header |-> header.header,
                     MerkleProof |-> merkleProof.proof, Coinbase |-> coinbase.cb]]

BlockOfFields(f) ==
    IF f.err # Nil THEN [err |-> f.err, block |-> ZeroBlock]
    ELSE CHOOSE r \in
           { BlockOfParts(header, f.items[2], coinbase, merkleProof) :
               header \in {HeaderDecodeRLP(f.items[1])},
               coinbase \in {CoinbaseDecode(f.items[3])},
               merkleProof \in {decodeMerkleProof(f.items[2].content)} } : TRUE

\* KaspaBlock.DecodeRLP on the item at hand: [err, block]
BlockDecodeRLP(item) ==
    CHOOSE r \in {BlockOfFields(f) : f \in {RlpStruct(item, 3)}} : TRUE

\* EncodeCrossChainBlock: [panic, bytes]
EncodeCrossChainBlock(mb) ==
    IF mb.nil THEN [panic |-> FALSE, bytes |-> <<>>]
    ELSE IF \E i \in 1..Len(mb.MerkleProof) : mb.MerkleProof[i] = NoHash
      THEN [panic |-> TRUE, bytes |-> <<>>]
    ELSE [panic |-> FALSE, bytes |-> <<mb.chain % 256>> \o BlockEncodeRLP(mb)]

\* a variant that hands every non-empty input to the Kaspa decoder
DecodeAnyChainBlock(data) ==
    IF Len(data) = 0 THEN [err |-> "errShortTypedTx", block |-> NoBlock]
    ELSE BlockDecodeRLP(RlpDecodeBytes(Tail(data)))

\* DecodeCrossChainBlock: [err, block]
DecodeCrossChainBlock(data) ==
    IF Len(data) = 0 THEN [err |-> "errShortTypedTx", block |-> NoBlock]
    ELSE IF data[1] = KaspaChain THEN BlockDecodeRLP(RlpDecodeBytes(Tail(data)))
    ELSE [err |-> "ErrMergeTxChainNotSupported", block |-> NoBlock]

\* ------------------------------------------------------------------------
\* CrossMiningTx on the wire
\* ------------------------------------------------------------------------

\* the list CrossMiningTx.EncodeRLP writes, crossBlockBytes given
TxFieldsEncode(ctx, crossBlockBytes) ==
    RlpList(<< RlpString(ctx.ChainID), RlpString(ctx.Nonce), RlpString(ctx.GasTipCap),
               RlpString(ctx.GasFeeCap), RlpString(ctx.Gas), RlpString(ctx.From),
               RlpString(ctx.To), RlpString(ctx.Value), RlpString(ctx.Data),
               RlpString(crossBlockBytes),
               RlpString(ctx.V), RlpString(ctx.R), RlpString(ctx.S) >>)

TxEncodeOf(ctx, crossBlock) ==
    IF crossBlock.panic THEN crossBlock
    ELSE [panic |-> FALSE, bytes |-> TxFieldsEncode(ctx, crossBlock.bytes)]

\* CrossMiningTx.EncodeRLP: [panic, bytes]
TxEncodeRLP(ctx) ==
    CHOOSE r \in {TxEncodeOf(ctx, crossBlock) :
                    crossBlock \in {EncodeCrossChainBlock(ctx.AuxPoW)}} : TRUE

\* the new CrossMiningTx a decoder starts from
NoTx ==
    [ChainID |-> <<>>, Nonce |-> <<>>, GasTipCap |-> <<>>, GasFeeCap |-> <<>>, Gas |-> <<>>,
     From |-> Zeros(AddressLength), To |-> Zeros(AddressLength), Value |-> <<>>,
     Data |-> <<>>, AuxPoW |-> NoBlock, V |-> <<>>, R |-> <<>>, S |-> <<>>]

\* s.Decode(&decoded) into RlpCrossMiningTx
RlpCrossMiningTxErr(f) ==
    IF f.err # Nil THEN f.err
    ELSE FirstError(<< RlpUintErr(f.items[1], 0), RlpUintErr(f.items[2], 8),
                       RlpUintErr(f.items[3], 0), RlpUintErr(f.items[4], 0),
                       RlpUintErr(f.items[5], 8), RlpArrayErr(f.items[6], AddressLength),
                       RlpArrayErr(f.items[7], AddressLength), RlpUintErr(f.items[8], 0),
                       RlpBytesErr(f.items[9]), RlpBytesErr(f.items[10]),
                       RlpUintErr(f.items[11], 0), RlpUintErr(f.items[12], 0),
                       RlpUintErr(f.items[13], 0) >>)

\* the assignments of CrossMiningTx.DecodeRLP
TxOfFields(f, auxPoW) ==
    [ChainID |-> f.items[1].content, Nonce |-> f.items[2].content,
     GasTipCap |-> f.items[3].content, GasFeeCap |-> f.items[4].content,
     Gas |-> f.items[5].content, From |-> f.items[6].content, To |-> f.items[7].content,
     Value |-> f.items[8].content, Data |-> f.items[9].content, AuxPoW |-> auxPoW,
     V |-> f.items[11].content, R |-> f.items[12].content, S |-> f.items[13].content]

TxOfBlock(f, crossBlock) ==
    IF crossBlock.err # Nil THEN [panic |-> FALSE, err |-> crossBlock.err, tx |-> TxOfFields(f, NoBlock)]
    ELSE [panic |-> FALSE, err |-> Nil, tx |-> TxOfFields(f, crossBlock.block)]

TxOfStruct(f) ==
    IF RlpCrossMiningTxErr(f) # Nil
      THEN [panic |-> FALSE, err |-> RlpCrossMiningTxErr(f), tx |-> NoTx]
    ELSE IF Len(f.items[10].content) > 0
      THEN CHOOSE r \in {TxOfBlock(f, crossBlock) :
                           crossBlock \in {DecodeCrossChainBlock(f.items[10].content)}} : TRUE
    ELSE [panic |-> FALSE, err |-> Nil, tx |-> TxOfFields(f, NoBlock)]

\* CrossMiningTx.DecodeRLP into a new transaction: [panic, err, tx]
TxDecodeRLP(bytes) ==
    CHOOSE r \in {TxOfStruct(f) : f \in {RlpStruct(RlpDecodeBytes(bytes), 13)}} : TRUE

\* EncodeRLP, then DecodeRLP of what it wrote
RoundTripOf(encoded) ==
    IF encoded.panic THEN [panic |-> TRUE, err |-> Nil, tx |-> NoTx]
    ELSE TxDecodeRLP(encoded.bytes)
RoundTrip(ctx) == CHOOSE r \in {RoundTripOf(encoded) : encoded \in {TxEncodeRLP(ctx)}} : TRUE

\* ------------------------------------------------------------------------
\* The codec as a state machine: a transaction to encode and decode, and a
\* byte string handed to DecodeCrossChainBlock.
\* ------------------------------------------------------------------------

Hash32(n) == [i \in 1..DomainHashSize |-> (n * 37 + i * 11) % 256]

\* a byte string of n bytes
Bytes(n) == [i \in 1..n |-> (i * 29 + 3) % 256]

GoodHeader ==
    [nil |-> FALSE, Kversion |-> 1,
     Kparents |-> << <<Hash32(1), Hash32(2)>>, <<Hash32(3)>> >>,
     KhashMerkleRoot |-> Hash32(4), KacceptedIDMerkleRoot |-> Hash32(5),
     KutxoCommitment |-> Hash32(6),
     Ktimestamp |-> BigAdd(Millis(HeliumTime), BigFromNat(5000)),
     Kbits |-> 528482303, Knonce |-> BigFromNat(7), KdaaScore |-> BigFromNat(70000),
     KblueScore |-> BigFromNat(69000), KblueWork |-> BigLsh(<<1>>, 70),
     KpruningPoint |-> Hash32(7)]

GoodBlock ==
    [nil |-> FALSE, chain |-> KaspaChain, Header |-> GoodHeader,
     MerkleProof |-> <<Hash32(8), Hash32(9)>>, Coinbase |-> Coinbases[1]]

\* blocks a transaction can carry: well-formed ones, and ones with a nil hash,
\* a nil sibling, a nil coinbase, a nil header
WellFormedBlocks ==
    { GoodBlock,
      [GoodBlock EXCEPT !.MerkleProof = <<>>],
      [GoodBlock EXCEPT !.Header.Kparents = << <<Hash32(1), NoHash>>, <<>>, <<Hash32(3)>> >>],
      [GoodBlock EXCEPT !.Header.Kparents = <<>>],
      [GoodBlock EXCEPT !.Header.Kversion = 0, !.Header.Ktimestamp = <<>>,
                        !.Header.Kbits = 0, !.Header.Knonce = <<>>,
                        !.Header.KdaaScore = <<>>, !.Header.KblueWork = <<>>],
      [GoodBlock EXCEPT !.Header.Knonce = <<127>>, !.Header.KdaaScore = <<128>>,
                        !.Header.KblueScore = [i \in 1..8 |-> 255],
                        !.Header.KhashMerkleRoot = Zeros(DomainHashSize)],
      [GoodBlock EXCEPT !.Coinbase = Coinbases[2]],
      [GoodBlock EXCEPT !.Coinbase = [Coinbases[3] EXCEPT !.Payload = <<5>>]],
      [GoodBlock EXCEPT !.MerkleProof = <<Zeros(DomainHashSize)>>] }

NilPartBlocks ==
    { [GoodBlock EXCEPT !.Header.KhashMerkleRoot = NoHash],
      [GoodBlock EXCEPT !.Header.KacceptedIDMerkleRoot = NoHash],
      [GoodBlock EXCEPT !.Header.KutxoCommitment = NoHash],
      [GoodBlock EXCEPT !.Header.KpruningPoint = NoHash],
      [GoodBlock EXCEPT !.MerkleProof = <<Hash32(8), NoHash>>],
      [GoodBlock EXCEPT !.Coinbase = NoCoinbase],
      [GoodBlock EXCEPT !.Header = NoHeader] }

CodecBlocks == WellFormedBlocks \cup NilPartBlocks \cup {NoBlock}

GoodTx ==
    [ChainID |-> BigFromNat(3003), Nonce |-> BigFromNat(9), GasTipCap |-> BigFromNat(1000),
     GasFeeCap |-> BigLsh(<<1>>, 40), Gas |-> BigFromNat(100000), From |-> SenderAddress,
     To |-> MiningContract, Value |-> BigLsh(<<1>>, 64), Data |-> BaseTx.data,
     AuxPoW |-> GoodBlock, V |-> <<1>>, R |-> Hash32(10), S |-> Hash32(11)]

\* the same with zero and one-byte values, no data and the zero address
SmallTx ==
    [GoodTx EXCEPT !.ChainID = <<>>, !.Nonce = <<>>, !.GasTipCap = <<127>>,
                   !.GasFeeCap = <<128>>, !.Gas = <<>>, !.To = Zeros(AddressLength),
                   !.Value = <<>>, !.Data = <<>>, !.V = <<>>, !.R = <<1>>, !.S = <<255>>]

CodecTxs == { [t EXCEPT !.AuxPoW = b] : t \in {GoodTx, SmallTx}, b \in CodecBlocks }

\* hash-sized fields on the wire hold byte strings of any size: the encoding
\* of a block whose fields are such strings is what a peer can send
WrongSizes == {1, 31, 33}

SizedBlocks ==
    { [GoodBlock EXCEPT !.Header.KhashMerkleRoot = Bytes(n)] : n \in WrongSizes \cup {0} }
    \cup { [GoodBlock EXCEPT !.Header.KacceptedIDMerkleRoot = Bytes(n)] : n \in WrongSizes }
    \cup { [GoodBlock EXCEPT !.Header.KutxoCommitment = Bytes(n)] : n \in WrongSizes }
    \cup { [GoodBlock EXCEPT !.Header.KpruningPoint = Bytes(n)] : n \in WrongSizes }
    \cup { [GoodBlock EXCEPT !.Header.Kparents = << <<Hash32(1), Bytes(n)>>, <<Hash32(3)>> >>] :
             n \in WrongSizes \cup {0} }
    \cup { [GoodBlock EXCEPT !.MerkleProof = <<Hash32(8), Bytes(n)>>] :
             n \in WrongSizes \cup {0, DomainHashSize} }
    \cup { GoodBlock, [GoodBlock EXCEPT !.MerkleProof = <<>>] }

\* what DecodeCrossChainBlock is handed: a tag and the encoding of a block,
\* as it is, cut short, or followed by another byte
Tags == {UnknownChain, KaspaChain, MoneroChain, 3, 255}

Wire(kind, tag, block, data) == [kind |-> kind, tag |-> tag, block |-> block, data |-> data]

Wires ==
    { Wire("block", KaspaChain, b, <<KaspaChain>> \o BlockEncodeRLP(b)) : b \in SizedBlocks }
    \cup { Wire("tagged", t, GoodBlock, <<t>> \o BlockEncodeRLP(GoodBlock)) : t \in Tags }
    \cup { Wire("tagged", t, GoodBlock, <<t>>) : t \in Tags }
    \cup { Wire("empty", UnknownChain, GoodBlock, <<>>),
           Wire("cut", KaspaChain, GoodBlock,
                SubSeq(<<KaspaChain>> \o BlockEncodeRLP(GoodBlock), 1, 100)),
           Wire("more", KaspaChain, GoodBlock,
                <<KaspaChain>> \o BlockEncodeRLP(GoodBlock) \o <<0>>) }

InitCodec ==
    /\ config = ChainConfig
    /\ arch = "amd64"
    /\ blockTime = HeliumTime + 100
    /\ tx = BaseTx
    /\ edits = 0
    /\ result = NoResult
    /\ steps = <<>>
    /\ engine = NoEngine
    /\ procs = NoProcs
    /\ \E c \in CodecTxs, w \in Wires : args = [ctx |-> c, wire |-> w]

\* CrossMiningTx.EncodeRLP, then CrossMiningTx.DecodeRLP into a new transaction
CallRoundTrip ==
    /\ result.op = "none"
    /\ result' = [op |-> "roundtrip", out |-> RoundTrip(args.ctx)]
    /\ UNCHANGED <<config, arch, tx, blockTime, edits, args, steps, engine, procs>>

\* DecodeCrossChainBlock(data)
CallDecodeCrossChainBlock ==
    /\ result.op = "none"
    /\ result' = [op |-> "DecodeCrossChainBlock", out |-> DecodeCrossChainBlock(args.wire.data)]
    /\ UNCHANGED <<config, arch, tx, blockTime, edits, args, steps, engine, procs>>

\* CrossMiningTx.DecodeRLP of a transaction that carries the bytes as its AuxPoW
CallDecodeRLP ==
    /\ result.op = "none"
    /\ result' = [op |-> "DecodeRLP",
                  out |-> TxDecodeRLP(TxFieldsEncode(args.ctx, args.wire.data))]
    /\ UNCHANGED <<config, arch, tx, blockTime, edits, args, steps, engine, procs>>

\* the transaction the verifier is handed after a decoding that left AuxPoW
\* nil: the block's fields do not exist and are never read
DecodedTransaction(ctx) ==
    [type |-> CrossMiningTxType, to |-> ctx.To, from |-> ctx.From, value |-> ctx.Value,
     data |-> ctx.Data, AuxPoW |-> [BaseBlock EXCEPT !.nil = TRUE]]

VerifyDecoded(cfg, d, parentTime, a) ==
    [err |-> d.err, tx |-> d.tx,
     seal |-> IF d.err = Nil /\ ~d.panic /\ d.tx.AuxPoW.nil
              THEN VerifyCrossMiningTxSeal(cfg, DecodedTransaction(d.tx), parentTime, a)
              ELSE "not called"]

\* a transaction arrives with empty aux_pow_bytes: CrossMiningTx.DecodeRLP,
\* then VerifyCrossMiningTxSeal(config, tx, parent) on what was decoded
CallVerifyDecoded ==
    /\ result.op = "none"
    /\ args.wire.data = <<>>
    /\ result' = [op |-> "VerifyDecoded",
                  out |-> VerifyDecoded(config, TxDecodeRLP(TxFieldsEncode(args.ctx, args.wire.data)),
                                        blockTime, arch)]
    /\ UNCHANGED <<config, arch, tx, blockTime, edits, args, steps, engine, procs>>

NextCodec == CallRoundTrip \/ CallDecodeCrossChainBlock \/ CallDecodeRLP \/ CallVerifyDecoded

SpecCodec == InitCodec /\ [][NextCodec]_vars

\* ---------------------------------------------------------------------------
\* decoding

Decoded == result.op = "DecodeCrossChainBlock"

\* C13: DecodeCrossChainBlock fails on an empty input, decodes an input whose
\* first byte is 1 as a Kaspa block, and for every other first byte fails with
\* the chain-not-supported error and returns no block; a block it returns is a
\* Kaspa block.
C13_Dispatch ==
    Decoded =>
        /\ args.wire.data = <<>> => result.out.err # Nil /\ result.out.block.nil
        /\ args.wire.data # <<>> /\ args.wire.data[1] # 1 =>
              /\ result.out.err = "ErrMergeTxChainNotSupported"
              /\ result.out.block.nil
        /\ args.wire.data # <<>> /\ args.wire.data[1] = 1 =>
              /\ ~result.out.block.nil
              /\ args.wire.kind = "tagged" /\ Len(args.wire.data) > 1 =>
                    result.out = [err |-> Nil, block |-> GoodBlock]
        /\ ~result.out.block.nil => result.out.block.chain = KaspaChain

\* a Kaspa block's encoding under the Monero tag
C13_Witness ==
    /\ Decoded
    /\ args.wire.tag = MoneroChain /\ Len(args.wire.data) > 1
    /\ args.wire.data[1] = 2
    /\ result.out.err = "ErrMergeTxChainNotSupported"

HeaderHashes(header) ==
    << header.KhashMerkleRoot, header.KacceptedIDMerkleRoot, header.KutxoCommitment,
       header.KpruningPoint >>

WrongHeaderHash(b) == \E i \in 1..4 : Len(HeaderHashes(b.Header)[i]) # 32
WrongParent(b) ==
    \E i \in 1..Len(b.Header.Kparents) : \E j \in 1..Len(b.Header.Kparents[i]) :
        Len(b.Header.Kparents[i][j]) \notin {0, 32}
WrongSibling(b) == \E i \in 1..Len(b.MerkleProof) : Len(b.MerkleProof[i]) # 32

\* the decoded block holds the byte strings that were sent
AsSent(b, sent) ==
    /\ HeaderHashes(b.Header) = HeaderHashes(sent.Header)
    /\ b.Header.Kparents = sent.Header.Kparents
    /\ b.MerkleProof = sent.MerkleProof

\* C14: decoding a Kaspa block fails when a parent is neither empty nor 32
\* bytes, when a header hash is not 32 bytes or when a Merkle sibling is not 32
\* bytes; no decoded block holds a padded or truncated hash.
C14_SizeChecks ==
    Decoded /\ args.wire.kind = "block" =>
        /\ WrongHeaderHash(args.wire.block) \/ WrongParent(args.wire.block)
              \/ WrongSibling(args.wire.block) => result.out.err # Nil
        /\ result.out.err = Nil => AsSent(result.out.block, args.wire.block)

\* a sibling of one byte, decoded without error into that byte and 31 zeros
C14_PaddedSibling ==
    /\ Decoded /\ args.wire.kind = "block"
    /\ Len(args.wire.block.MerkleProof) = 2
    /\ Len(args.wire.block.MerkleProof[2]) = 1
    /\ result.out.err = Nil
    /\ result.out.block.MerkleProof[2] = args.wire.block.MerkleProof[2] \o Zeros(31)

\* the size checks that are made: the header hashes and the parents
C14_HeaderAndParents ==
    Decoded /\ args.wire.kind = "block" =>
        /\ WrongHeaderHash(args.wire.block) \/ WrongParent(args.wire.block)
              => result.out.err # Nil
        /\ result.out.err = Nil =>
              /\ HeaderHashes(result.out.block.Header) = HeaderHashes(args.wire.block.Header)
              /\ result.out.block.Header.Kparents = args.wire.block.Header.Kparents

\* ---------------------------------------------------------------------------
\* encoding and decoding

\* no block, or a block with its header, its coinbase, every header hash and
\* every Merkle sibling
Encodable(ctx) ==
    \/ ctx.AuxPoW.nil
    \/ /\ ~ctx.AuxPoW.Header.nil
       /\ ~ctx.AuxPoW.Coinbase.nil
       /\ \A i \in 1..4 : HeaderHashes(ctx.AuxPoW.Header)[i] # NoHash
       /\ \A i \in 1..Len(ctx.AuxPoW.MerkleProof) : ctx.AuxPoW.MerkleProof[i] # NoHash

C15_NilParts ==
    result.op = "roundtrip" /\ ~Encodable(args.ctx) =>
        result.out.panic \/ result.out.err # Nil



\* C24: a cross-mining transaction whose wire encoding has an empty
\* aux_pow_bytes field decodes without error and has no AuxPoW, and
\* VerifyCrossMiningTxSeal rejects it with the nil-block error whatever its
\* other fields are.
C24_NilBlock ==
    /\ result.op = "DecodeRLP" /\ args.wire.data = <<>> =>
          ~result.out.panic /\ result.out.err = Nil /\ result.out.tx.AuxPoW.nil
    /\ result.op = "VerifyDecoded" =>
          /\ result.out.err = Nil
          /\ result.out.tx.AuxPoW.nil
          /\ result.out.tx = [args.ctx EXCEPT !.AuxPoW = NoBlock]
          /\ result.out.seal = "ErrInvalidNilBlock"

\* the decoded transaction has no AuxPoW and would also fail the receiver,
\* value and calldata checks
C24_Witness ==
    /\ result.op = "VerifyDecoded"
    /\ result.out.tx.AuxPoW.nil
    /\ result.out.tx.To # config.MiningContract
    /\ result.out.tx.Data = <<>>
    /\ result.out.seal = "ErrInvalidNilBlock"


\* ---------------------------------------------------------------------------
\* The Canxium engine as a header verifier (consensus/canxium/consensus.go).
\* VerifyHeaders starts one goroutine that verifies the headers in order and
\* sends each result on a buffered channel; the caller reads results and may
\* signal abort by closing the abort channel or by sending on it.
\* ---------------------------------------------------------------------------

MaxHeaders == 3

\* a result is the error returned (Nil for a nil error) and, as fmt.Errorf
\* allocates a new error on every call, the header the call was made for
\* and the number of parents it was handed
VerifyHeader(chain, header, seal) ==
    [err |-> "Canxium offline transaction only", of |-> header, call |-> 0]

verifyHeaderAccepting(chain, header, parents) ==
    [err |-> Nil, of |-> header, call |-> Len(parents)]

verifyHeader(chain, header, parents) ==
    [err |-> "Canxium offline transaction mining only", of |-> header, call |-> Len(parents)]

NoError == [err |-> Nil, of |-> Nil, call |-> 0]
IsError(e) == e.err # Nil

ResultsCapacityUnbuffered(headers) == 0

\* results := make(chan error, len(headers))
ResultsCapacity(headers) == Len(headers)

\* headers are never read by the engine: a nil header and two headers
HeaderChoices == {[nil |-> TRUE, Number |-> 0], [nil |-> FALSE, Number |-> 1],
                  [nil |-> FALSE, Number |-> 2]}
HeaderLists == UNION { [1..n -> HeaderChoices] : n \in 0..MaxHeaders }
ChainReaders == {Nil, "chain"}

WorkerIdle == [pc |-> "none", i |-> 0, err |-> NoError]
CallerIdle == [pc |-> "idle", received |-> <<>>]

InitHeaders ==
    /\ config = ChainConfig
    /\ arch = "amd64"
    /\ blockTime = HeliumTime + 100
    /\ tx = BaseTx
    /\ edits = 0
    /\ result = NoResult
    /\ steps = <<>>
    /\ \E hs \in HeaderLists, seal \in BOOLEAN, chain \in ChainReaders :
          args = [chain |-> chain, headers |-> hs, seals |-> [k \in 1..Len(hs) |-> seal]]
    /\ engine = [kind |-> "headers", abort |-> "none", results |-> <<>>, capacity |-> 0]
    /\ procs = [worker |-> WorkerIdle, caller |-> CallerIdle]

\* c.VerifyHeader(chain, header, seal) on any header of the batch
CallVerifyHeader ==
    /\ result.op = "none"
    /\ \E k \in 1..Len(args.headers) :
          result' = [op |-> "VerifyHeader",
                     out |-> VerifyHeader(args.chain, args.headers[k], args.seals[k])]
    /\ UNCHANGED <<config, arch, tx, blockTime, edits, args, steps, engine, procs>>

\* c.VerifyHeaders(chain, headers, seals): makes the two channels, starts the
\* worker and returns the channels
CallVerifyHeaders ==
    /\ engine.abort = "none"
    /\ engine' = [engine EXCEPT !.abort = "open", !.results = <<>>,
                                !.capacity = ResultsCapacity(args.headers)]
    /\ procs' = [procs EXCEPT !.worker = [pc |-> "for", i |-> 0, err |-> NoError]]
    /\ UNCHANGED <<config, arch, tx, blockTime, edits, args, result, steps>>

\* for i, header := range headers { err := c.verifyHeader(chain, header, headers[:i])
WorkerVerify ==
    /\ procs.worker.pc = "for"
    /\ procs' = [procs EXCEPT !.worker =
                    IF procs.worker.i < Len(args.headers)
                    THEN [pc |-> "select", i |-> procs.worker.i,
                          err |-> verifyHeader(args.chain, args.headers[procs.worker.i + 1],
                                               SubSeq(args.headers, 1, procs.worker.i))]
                    ELSE [pc |-> "done", i |-> procs.worker.i, err |-> NoError]]
    /\ UNCHANGED <<config, arch, tx, blockTime, edits, args, result, steps, engine>>

\* case results <- err: a send on a buffered channel needs room in the buffer,
\* a send on an unbuffered one needs a receiver (none of the callers waits
\* before the worker is at the send)
WorkerSend ==
    /\ procs.worker.pc = "select"
    /\ Len(engine.results) < engine.capacity
    /\ engine' = [engine EXCEPT !.results = Append(@, procs.worker.err)]
    /\ procs' = [procs EXCEPT !.worker = [pc |-> "for", i |-> procs.worker.i + 1, err |-> NoError]]
    /\ UNCHANGED <<config, arch, tx, blockTime, edits, args, result, steps>>

\* case <-abort: return, ready when abort is closed or a send on it is pending;
\* the receive completes the pending send
WorkerAbort ==
    /\ procs.worker.pc = "select"
    /\ engine.abort = "closed" \/ procs.caller.pc = "sending"
    /\ procs' = [procs EXCEPT !.worker = [pc |-> "done", i |-> procs.worker.i, err |-> NoError],
                              !.caller.pc = IF procs.caller.pc = "sending" THEN "aborted" ELSE @]
    /\ UNCHANGED <<config, arch, tx, blockTime, edits, args, result, steps, engine>>

\* the caller: err := <-results
CallerReceive ==
    /\ engine.abort # "none"
    /\ procs.caller.pc # "sending"
    /\ engine.results # <<>>
    /\ engine' = [engine EXCEPT !.results = Tail(@)]
    /\ procs' = [procs EXCEPT !.caller.received = Append(@, Head(engine.results))]
    /\ UNCHANGED <<config, arch, tx, blockTime, edits, args, result, steps>>

\* the caller: close(abort)
CallerClose ==
    /\ engine.abort = "open"
    /\ procs.caller.pc = "idle"
    /\ engine' = [engine EXCEPT !.abort = "closed"]
    /\ procs' = [procs EXCEPT !.caller.pc = "aborted"]
    /\ UNCHANGED <<config, arch, tx, blockTime, edits, args, result, steps>>

\* the caller: abort <- struct{}{}, which waits for the worker's receive
CallerSend ==
    /\ engine.abort = "open"
    /\ procs.caller.pc = "idle"
    /\ procs' = [procs EXCEPT !.caller.pc = "sending"]
    /\ UNCHANGED <<config, arch, tx, blockTime, edits, args, result, steps, engine>>

Worker == WorkerVerify \/ WorkerSend \/ WorkerAbort

NextHeaders ==
    \/ CallVerifyHeader \/ CallVerifyHeaders \/ WorkerVerify \/ WorkerSend \/ WorkerAbort
    \/ CallerReceive \/ CallerClose \/ CallerSend

SpecHeaders == InitHeaders /\ [][NextHeaders]_vars

\* the Go scheduler runs a goroutine that can take a step; nothing obliges the
\* caller to start the batch, to read or to abort
SpecHeadersFair == SpecHeaders /\ WF_vars(Worker)


\* the results sent so far, in the order they were sent: those the caller has
\* read, then those in the channel
Delivered == procs.caller.received \o engine.results

\* C21: the Canxium engine never accepts a block header: VerifyHeader returns
\* an error for every chain, header and seal flag, and every result sent on
\* the results channel of VerifyHeaders is an error.
C21_NeverAccepts ==
    /\ result.op = "VerifyHeader" => IsError(result.out)
    /\ engine.kind = "headers" =>
          \A k \in 1..Len(Delivered) : IsError(Delivered[k])

\* a direct call has returned and the caller has read the results of a full batch
C21_Witness ==
    /\ result.op = "VerifyHeader"
    /\ engine.kind = "headers"
    /\ Len(procs.caller.received) = MaxHeaders
    /\ \E k \in 1..MaxHeaders : args.headers[k].nil
    /\ \E k \in 1..MaxHeaders : ~args.seals[k]

C22_Order ==
    /\ Len(Delivered) <= Len(args.headers)
    /\ \A k \in 1..Len(Delivered) :
          Delivered[k] = verifyHeader(args.chain, args.headers[k], SubSeq(args.headers, 1, k - 1))
C22_NeverBlocks ==
    procs.worker.pc = "select" => Len(engine.results) < engine.capacity
C22_AllDelivered ==
    procs.worker.pc = "done" /\ procs.caller.pc # "aborted" =>
        Len(Delivered) = Len(args.headers)

\* C22: the worker of VerifyHeaders sends the results in the order of the
\* input slice and never more than len(headers) of them; it is never blocked
\* at its send, because the channel has room for every result; it sends
\* exactly len(headers) results unless it received the abort signal; and once
\* started it terminates, whether the caller reads, aborts or does nothing.
C22_Worker ==
    /\ [](engine.kind = "headers" => C22_Order /\ C22_NeverBlocks /\ C22_AllDelivered)
    /\ (engine.kind = "headers" /\ procs.worker.pc = "for") ~> (procs.worker.pc = "done")

\* the caller never read and never aborted, and the worker is done with a
\* full channel
C22_Witness ==
    /\ engine.kind = "headers"
    /\ procs.worker.pc = "done"
    /\ procs.caller = CallerIdle
    /\ Len(engine.results) = MaxHeaders

\* the worker took the abort signal with results left to send
C22_AbortedEarly ==
    /\ engine.kind = "headers"
    /\ procs.worker.pc = "done"
    /\ procs.caller.pc = "aborted"
    /\ Len(Delivered) < Len(args.headers)


\* ---------------------------------------------------------------------------
\* The Canxium engine as a miner's object (consensus/canxium/canxium.go): its
\* thread count, its update channel and the shutdown of its remote sealer.
\* Goroutines call SetThreads, Threads, Close and StopRemoteSealer; a sealer
\* may be receiving on the update channel; the remote sealer's loop ends when
\* requestExit is closed and closes exitCh on its way out.
\* ---------------------------------------------------------------------------

MaxCalls == 2
Callers == {1, 2}
ThreadCounts == {-1, 0, 1, 2}

\* New(config, notify, noverify): a remote sealer, shared set in ModeShared;
\* NewShared(): shared set, no remote sealer; NewFaker, NewFakeFailer,
\* NewFakeDelayer, NewFullFaker: neither
Constructors ==
    { [name |-> "New", shared |-> FALSE, remote |-> TRUE],
      [name |-> "NewModeShared", shared |-> TRUE, remote |-> TRUE],
      [name |-> "NewShared", shared |-> TRUE, remote |-> FALSE],
      [name |-> "NewFaker", shared |-> FALSE, remote |-> FALSE] }

\* the engine after the constructor; sharedThreads is the field threads of
\* the instance sharedEthash, requestExit counts close(requestExit)
NewEngine(c, sharedThreads) ==
    [kind |-> "engine", name |-> c.name, shared |-> c.shared, remote |-> c.remote,
     threads |-> 0, sharedThreads |-> sharedThreads,
     closeOnce |-> "new", requestExit |-> 0, exitCh |-> "open", panic |-> FALSE]

\* canxium.Threads(): return canxium.threads
Threads(e) == e.threads

\* canxium.SetThreads(threads): the fields after the call
SetThreads(e, threads) ==
    IF e.shared
    THEN [e EXCEPT !.sharedThreads = threads]   \* canxium.shared.SetThreads(threads)
    ELSE [e EXCEPT !.threads = threads]

\* select { case canxium.update <- struct{}{}: default: }
PingUpdate(receiving) == IF receiving THEN "sent" ELSE "skipped"

OnceDoAlways(once) == "run"

\* sync.Once.Do(f): the first caller runs f, a caller that arrives while f
\* runs waits for it, a later caller returns at once
OnceDo(once) ==
    CASE once = "new" -> "run"
      [] once = "running" -> "wait"
      [] OTHER -> "skip"

IdleCaller == [pc |-> "idle", calls |-> 0, returned |-> <<>>]

InitEngine ==
    /\ config = ChainConfig
    /\ arch = "amd64"
    /\ blockTime = HeliumTime + 100
    /\ tx = BaseTx
    /\ edits = 0
    /\ result = NoResult
    /\ steps = <<>>
    /\ args = [threads |-> 0, set |-> FALSE]
    /\ \E c \in Constructors, st \in {0, 1} : engine = NewEngine(c, st)
    /\ procs = [callers |-> [c \in Callers |-> IdleCaller],
                sealer |-> [pc |-> IF engine.remote THEN "loop" ELSE "none",
                            receiving |-> FALSE, pings |-> 0]]

\* a sealer starts or stops waiting on the update channel of the instance
\* that SetThreads writes to
SealerListen ==
    /\ engine.kind = "engine"
    /\ procs' = [procs EXCEPT !.sealer.receiving = ~@]
    /\ UNCHANGED <<config, arch, tx, blockTime, edits, args, result, steps, engine>>

\* caller 1: canxium.SetThreads(threads), under canxium.lock
CallSetThreads ==
    /\ engine.kind = "engine"
    /\ procs.callers[1].pc = "idle"
    /\ \E n \in ThreadCounts :
          /\ engine' = SetThreads(engine, n)
          /\ args' = [threads |-> n, set |-> TRUE]
    /\ result' = [op |-> "SetThreads", out |-> PingUpdate(procs.sealer.receiving)]
    /\ procs' = [procs EXCEPT
                    !.sealer.pings = IF result'.out = "sent" THEN (@ + 1) % 2 ELSE @,
                    !.sealer.receiving = IF result'.out = "sent" THEN FALSE ELSE @,
                    !.callers[1].pc = IF result'.out = "blocked" THEN "blocked" ELSE @]
    /\ UNCHANGED <<config, arch, tx, blockTime, edits, steps>>

\* caller 1: canxium.Threads(), under canxium.lock, after its SetThreads
CallThreads ==
    /\ engine.kind = "engine"
    /\ procs.callers[1].pc = "idle"
    /\ result.op = "SetThreads"
    /\ result' = [op |-> "Threads", out |-> Threads(engine)]
    /\ UNCHANGED <<config, arch, tx, blockTime, edits, args, steps, engine, procs>>

\* a call that ends: return nil
Returned(caller) == [caller EXCEPT !.pc = "idle", !.returned = Append(@, Nil)]

\* canxium.StopRemoteSealer(), up to the first point where the call waits:
\* closeOnce.Do, and in the function it runs the test of remote and
\* close(requestExit), which panics on a closed channel
StopRemoteSealer(c) ==
    /\ engine.kind = "engine"
    /\ procs.callers[c].pc = "idle"
    /\ procs.callers[c].calls < MaxCalls
    /\ ~engine.panic
    /\ LET do == OnceDo(engine.closeOnce)
           started == [procs.callers[c] EXCEPT !.calls = @ + 1]
       IN  CASE do = "run" /\ ~engine.remote ->
                   /\ engine' = [engine EXCEPT !.closeOnce = "done"]
                   /\ procs' = [procs EXCEPT !.callers[c] = Returned(started)]
             [] do = "run" /\ engine.remote /\ engine.requestExit = 0 ->
                   /\ engine' = [engine EXCEPT !.closeOnce = "running", !.requestExit = 1]
                   /\ procs' = [procs EXCEPT !.callers[c] = [started EXCEPT !.pc = "exitCh"]]
             [] do = "run" /\ engine.remote /\ engine.requestExit > 0 ->
                   /\ engine' = [engine EXCEPT !.requestExit = @ + 1, !.panic = TRUE]
                   /\ procs' = [procs EXCEPT !.callers[c] = [started EXCEPT !.pc = "panic"]]
             [] do = "wait" ->
                   /\ engine' = engine
                   /\ procs' = [procs EXCEPT !.callers[c] = [started EXCEPT !.pc = "once"]]
             [] OTHER ->
                   /\ engine' = engine
                   /\ procs' = [procs EXCEPT !.callers[c] = Returned(started)]
    /\ UNCHANGED <<config, arch, tx, blockTime, edits, args, result, steps>>

\* canxium.Close(): return canxium.StopRemoteSealer()
Close(c) == StopRemoteSealer(c)

\* <-canxium.remote.exitCh in the function run by closeOnce, then return nil
StopReceiveExit ==
    /\ engine.kind = "engine"
    /\ \E c \in Callers :
          /\ procs.callers[c].pc = "exitCh"
          /\ engine.exitCh = "closed"
          /\ engine' = [engine EXCEPT !.closeOnce = "done"]
          /\ procs' = [procs EXCEPT !.callers[c] = Returned(@)]
    /\ UNCHANGED <<config, arch, tx, blockTime, edits, args, result, steps>>

\* a caller that waited in closeOnce.Do returns when the function has run
StopAfterOnce ==
    /\ engine.kind = "engine"
    /\ \E c \in Callers :
          /\ procs.callers[c].pc = "once"
          /\ engine.closeOnce = "done"
          /\ procs' = [procs EXCEPT !.callers[c] = Returned(@)]
    /\ UNCHANGED <<config, arch, tx, blockTime, edits, args, result, steps, engine>>

\* the loop of the remote sealer: case <-s.requestExit: return, and on its way
\* out close(s.exitCh)
SealerExit ==
    /\ engine.kind = "engine"
    /\ procs.sealer.pc = "loop"
    /\ engine.requestExit > 0
    /\ engine' = [engine EXCEPT !.exitCh = "closed"]
    /\ procs' = [procs EXCEPT !.sealer.pc = "exited"]
    /\ UNCHANGED <<config, arch, tx, blockTime, edits, args, result, steps>>

NextEngine ==
    \/ SealerListen \/ CallSetThreads \/ CallThreads
    \/ (\E c \in Callers : Close(c)) \/ (\E c \in Callers : StopRemoteSealer(c))
    \/ StopReceiveExit \/ StopAfterOnce \/ SealerExit

SpecEngine == InitEngine /\ [][NextEngine]_vars


\* C23: after SetThreads(n) returns, Threads() on the same engine returns n,
\* for every engine including one that delegates to the shared instance, and
\* SetThreads never blocks on the update channel.
C23_ThreadsAfterSet ==
    /\ result.op = "SetThreads" => result.out \in {"sent", "skipped"}
    /\ result.op = "Threads" => result.out = args.threads

\* an engine made by NewShared: SetThreads(2) wrote 2 to the shared instance
\* and Threads() returned the engine's own field, 0
C23_SharedStale ==
    /\ engine.kind = "engine"
    /\ engine.shared
    /\ result.op = "Threads"
    /\ args.threads = 2
    /\ engine.sharedThreads = 2
    /\ result.out = 0

\* the claim holds on an engine that does not delegate, and SetThreads never
\* blocks: without a receiver the select takes its default case
C23_OwnThreads ==
    /\ result.op = "SetThreads" => result.out \in {"sent", "skipped"}
    /\ engine.kind = "engine" => \A c \in Callers : procs.callers[c].pc # "blocked"
    /\ result.op = "Threads" /\ ~engine.shared => result.out = args.threads

ReturnedBy(c) == procs.callers[c].returned

\* C25: for any number of sequential or concurrent calls of Close and
\* StopRemoteSealer on one engine, requestExit is closed at most once, and
\* exactly once when a call has returned on an engine with a remote sealer;
\* every call that returns returns nil and no call panics; on an engine
\* without a remote sealer no channel is touched.
C25_ClosedOnce ==
    engine.kind = "engine" =>
        /\ engine.requestExit <= 1
        /\ ~engine.panic
        /\ \A c \in Callers : procs.callers[c].pc # "panic"
        /\ \A c \in Callers : \A k \in 1..Len(ReturnedBy(c)) : ReturnedBy(c)[k] = Nil
        /\ engine.remote /\ (\E c \in Callers : ReturnedBy(c) # <<>>) =>
              engine.requestExit = 1 /\ engine.exitCh = "closed"
        /\ ~engine.remote => engine.requestExit = 0 /\ engine.exitCh = "open"

\* two goroutines have each called twice and all four calls have returned
C25_Witness ==
    /\ engine.kind = "engine"
    /\ engine.remote
    /\ \A c \in Callers : Len(ReturnedBy(c)) = MaxCalls
    /\ engine.requestExit = 1

\* the same on an engine made by a faker constructor
C25_FakerWitness ==
    /\ engine.kind = "engine"
    /\ engine.name = "NewFaker"
    /\ \A c \in Callers : Len(ReturnedBy(c)) = MaxCalls


\* ---------------------------------------------------------------------------
\* The nonce search of one ethashMine worker (consensus/canxium, the miner).
\* The worker is handed a transaction, a seed and the channels abort and
\* found; the caller may close abort at any time, and a goroutine may or may
\* not be receiving on found.
\* ---------------------------------------------------------------------------

MaxAttempts == 4
Seeds == {0, 5}

\* the nonces whose hashimoto result is at most the target, as offsets from
\* the seed: none, the seed itself, later ones
GoodOffsets == { {}, {0}, {1}, {2, 3}, {MaxAttempts - 1} }

\* nonce++
NextNonce(nonce) == nonce + 1

\* powBuffer.SetBytes(result).Cmp(target) <= 0
MeetsTarget(good, nonce) == nonce \in good

SendOnly(receiving, aborted) == IF receiving THEN {"sent"} ELSE {}

\* select { case found <- transaction: case <-abort: }: the cases that are
\* ready, of which the select takes any one
SendOrAbort(receiving, aborted) ==
    (IF receiving THEN {"sent"} ELSE {}) \cup (IF aborted THEN {"discarded"} ELSE {})

InitMine ==
    /\ config = ChainConfig
    /\ arch = "amd64"
    /\ blockTime = HeliumTime + 100
    /\ tx = BaseTx
    /\ edits = 0
    /\ result = NoResult
    /\ steps = <<>>
    /\ \E seed \in Seeds, offsets \in GoodOffsets :
          args = [seed |-> seed, good |-> {seed + o : o \in offsets}]
    /\ engine = [kind |-> "mine", abort |-> "open", found |-> <<>>, receiving |-> FALSE,
                 pow |-> [set |-> FALSE, nonce |-> 0]]
    /\ procs = [worker |-> [pc |-> "select", nonce |-> args.seed, tried |-> <<>>]]

\* the outer select: case <-abort: break search; default: go on with the nonce
MineSelect ==
    /\ engine.kind = "mine"
    /\ procs.worker.pc = "select"
    /\ IF engine.abort = "closed"
       THEN procs' = [procs EXCEPT !.worker.pc = "exit"]
       ELSE /\ Len(procs.worker.tried) < MaxAttempts
            /\ procs' = [procs EXCEPT !.worker.pc = "hash"]
    /\ UNCHANGED <<config, arch, tx, blockTime, edits, args, result, steps, engine>>

\* ethash.HashimotoFull(dataset, hash, nonce) and the comparison with the
\* target: transaction.SetPow(nonce, digest) on a hit, nonce++ otherwise
MineHash ==
    /\ engine.kind = "mine"
    /\ procs.worker.pc = "hash"
    /\ IF MeetsTarget(args.good, procs.worker.nonce)
       THEN /\ engine' = [engine EXCEPT !.pow = [set |-> TRUE, nonce |-> procs.worker.nonce]]
            /\ procs' = [procs EXCEPT !.worker.pc = "found",
                                      !.worker.tried = Append(@, procs.worker.nonce)]
       ELSE /\ engine' = engine
            /\ procs' = [procs EXCEPT !.worker.pc = "select",
                                      !.worker.nonce = NextNonce(@),
                                      !.worker.tried = Append(@, procs.worker.nonce)]
    /\ UNCHANGED <<config, arch, tx, blockTime, edits, args, result, steps>>

\* the inner select, then break search
MineReport ==
    /\ engine.kind = "mine"
    /\ procs.worker.pc = "found"
    /\ \E taken \in SendOrAbort(engine.receiving, engine.abort = "closed") :
          /\ engine' = IF taken = "sent"
                       THEN [engine EXCEPT !.found = Append(@, engine.pow.nonce),
                                           !.receiving = FALSE]
                       ELSE engine
          /\ procs' = [procs EXCEPT !.worker.pc = "exit"]
    /\ UNCHANGED <<config, arch, tx, blockTime, edits, args, result, steps>>

\* the caller: close(abort)
MineAbort ==
    /\ engine.kind = "mine"
    /\ engine.abort = "open"
    /\ engine' = [engine EXCEPT !.abort = "closed"]
    /\ UNCHANGED <<config, arch, tx, blockTime, edits, args, result, steps, procs>>

\* a goroutine starts or stops receiving on found
MineReceiver ==
    /\ engine.kind = "mine"
    /\ engine' = [engine EXCEPT !.receiving = ~@]
    /\ UNCHANGED <<config, arch, tx, blockTime, edits, args, result, steps, procs>>

MineWorker == MineSelect \/ MineHash \/ MineReport

NextMine == MineSelect \/ MineHash \/ MineReport \/ MineAbort \/ MineReceiver

SpecMine == InitMine /\ [][NextMine]_vars

\* the worker is a goroutine of its own: it runs whenever it can take a step
SpecMineFair == SpecMine /\ WF_vars(MineWorker)


\* the nonces are tried in order from the seed
C26_Order ==
    /\ \A k \in 1..Len(procs.worker.tried) : procs.worker.tried[k] = args.seed + k - 1
    /\ procs.worker.pc \in {"select", "hash"} =>
          procs.worker.nonce = args.seed + Len(procs.worker.tried)

\* at most one transaction is sent, it carries the first good nonce, and the
\* worker has exited
C26_AtMostOne ==
    /\ Len(engine.found) <= 1
    /\ engine.found # <<>> =>
          /\ procs.worker.pc = "exit"
          /\ engine.found[1] = procs.worker.tried[Len(procs.worker.tried)]
          /\ MeetsTarget(args.good, engine.found[1])
          /\ \A k \in 1..(Len(procs.worker.tried) - 1) :
                ~MeetsTarget(args.good, procs.worker.tried[k])

C26_ExitsOnAbort == (engine.abort = "closed") ~> (procs.worker.pc = "exit")

\* C26 as stated: each ethashMine worker tries the nonces seed, seed+1, ...
\* in order, sends at most one transaction on found and then exits; once
\* abort is closed the worker eventually exits, and it sends nothing after
\* abort was closed.
C26_ExitsWithoutSending ==
    /\ [](C26_Order /\ C26_AtMostOne)
    /\ [][engine.abort = "closed" => engine'.found = engine.found]_vars
    /\ C26_ExitsOnAbort

\* C26 amended: each ethashMine worker tries the nonces seed, seed+1, ... in
\* order, sends at most one transaction on found and then exits; once abort
\* is closed a worker at its abort check exits without trying another nonce
\* and without sending, and every worker eventually exits; a worker that has
\* found a nonce sends it after abort was closed only when a goroutine is
\* receiving on found, and exits without sending when none is.
C26_Worker ==
    /\ [](C26_Order /\ C26_AtMostOne)
    /\ [][engine.abort = "closed" /\ procs.worker.pc = "select" =>
             /\ engine'.found = engine.found
             /\ procs'.worker.tried = procs.worker.tried
             /\ procs'.worker.pc \in {"select", "exit"}]_vars
    /\ [][engine.abort = "closed" /\ engine'.found # engine.found =>
             procs.worker.pc = "found" /\ engine.receiving]_vars
    /\ [][procs.worker.pc = "found" /\ ~engine.receiving /\ procs'.worker.pc = "exit" =>
             engine.abort = "closed" /\ engine'.found = engine.found]_vars
    /\ C26_ExitsOnAbort

\* the worker found a nonce, nobody received it, and it exited on abort
C26_Witness ==
    /\ engine.kind = "mine"
    /\ engine.abort = "closed"
    /\ procs.worker.pc = "exit"
    /\ engine.pow.set
    /\ engine.found = <<>>
    /\ Len(procs.worker.tried) = MaxAttempts


\* ---------------------------------------------------------------------------
\* KaspaBlock.Difficulty as a function of the header's compact bits
\* ---------------------------------------------------------------------------

\* mantissas: the largest, one bit, two ordinary ones
Mantissas == {8388607, 32768, 65536, 4194304, 1193046}
Exponents == 1..32

\* every exponent with every mantissa, and the two mantissas around the
\* quotient 1.995 at exponent 32
DifficultyBits ==
    { e * ExponentDiv + m : e \in Exponents, m \in Mantissas }
    \cup { 32 * ExponentDiv + 4204816, 32 * ExponentDiv + 4204817 }

InitDifficulty ==
    /\ config = ChainConfig
    /\ arch \in Architectures
    /\ blockTime = HeliumTime + 100
    /\ tx = BaseTx
    /\ edits = 0
    /\ result = NoResult
    /\ steps = <<>>
    /\ engine = NoEngine
    /\ procs = NoProcs
    /\ \E b \in DifficultyBits : args = [bits |-> b]

\* b.Difficulty() on a block whose header has these bits
CallDifficulty ==
    /\ result.op = "none"
    /\ result' = [op |-> "Difficulty", out |-> Difficulty(args.bits, arch)]
    /\ UNCHANGED <<config, arch, tx, blockTime, edits, args, steps, engine, procs>>

NextDifficulty == CallDifficulty

SpecDifficulty == InitDifficulty /\ [][NextDifficulty]_vars

\* the quotient 100 * n / (d * 256^k) rounded half away from zero, in exact
\* arithmetic: a is 100 * n, dm the division of a without its last k bytes by d
RoundedHundredths(a, d, k, dm) ==
    IF d - 2 * dm.r <= 0 \/ (d - 2 * dm.r = 1 /\ k >= 1 /\ a[Len(a) - k + 1] >= 128)
    THEN BigAdd(dm.q, <<1>>) ELSE dm.q

ExactHundredths(a, d, k) ==
    RoundedHundredths(a, d, k, BigDivMod(SubSeq(a, 1, Len(a) - k), d))

\* trunc(round(100 * mainPowMax / target) / 100) for a target 1 .. 2^255 - 1
ExactDifficulty(mag) ==
    BigDivMod(ExactHundredths(BigMulSmall(mainPowMax, RoundingPrecision),
                              BigToNat(SubSeq(mag, 1, Len(mag) - TrailingZeroBytes(mag))),
                              TrailingZeroBytes(mag)),
              RoundingPrecision).q

TargetInRange(t) == Sign(t) > 0 /\ BigCmp(t.mag, mainPowMax) <= 0

\* C27: for every target in 1 .. 2^255 - 1, KaspaBlock.Difficulty returns
\* trunc(round(100 * maxTarget / target) / 100), rounding half away from
\* zero, and the result is positive.
C27_ExactDifficulty ==
    result.op = "Difficulty" /\ TargetInRange(CompactToBig(args.bits)) =>
        /\ ~result.out.panic
        /\ Sign(result.out.val) > 0
        /\ result.out.val.mag = ExactDifficulty(CompactToBig(args.bits).mag)

\* bits 0x19123456, a target near 2^213: the exact value is
\* 506655158147560603, the code returns 506655158147560576
C27_Imprecise ==
    /\ result.op = "Difficulty"
    /\ args.bits = 25 * ExponentDiv + 1193046
    /\ ExactDifficulty(CompactToBig(args.bits).mag)
          = BigFromDec(<<506, 655, 158, 147, 560, 603>>)
    /\ result.out.val = MkInt(FALSE, BigFromDec(<<506, 655, 158, 147, 560, 576>>))

\* a target below 2^192: the quotient does not fit int64 and the result is
\* negative on amd64
C27_Negative ==
    /\ result.op = "Difficulty"
    /\ arch = "amd64"
    /\ TargetInRange(CompactToBig(args.bits))
    /\ Sign(result.out.val) < 0

\* quotients below 2^46 are exact in float64 to two decimals, and there the
\* code returns the claimed value, also on both sides of 1.995
C27_SmallQuotients ==
    result.op = "Difficulty" /\ TargetInRange(CompactToBig(args.bits))
        /\ BigBitLen(CompactToBig(args.bits).mag) > 255 - 46 =>
        /\ Sign(result.out.val) > 0
        /\ result.out.val.mag = ExactDifficulty(CompactToBig(args.bits).mag)

\* ------------------------------------------------------------------------
\* The month tables and the shape of the Kaspa reward schedule
\* ------------------------------------------------------------------------

DescendingSchedule ==
    /\ \A i \in 1..(Len(KaspaCrossMiningIncentiveBaseRewards) - 1) :
          KaspaCrossMiningIncentiveBaseRewards[i]
              >= KaspaCrossMiningIncentiveBaseRewards[i + 1]
    /\ KaspaCrossMiningIncentiveBaseRewards[KaspaPhaseTwoDayNum]
          > KaspaCrossMiningBaseRewards[1]
    /\ \A i \in 1..KaspaPhaseThreeMonth :
          KaspaCrossMiningBaseRewards[i] >= KaspaCrossMiningBaseRewards[i + 1]

\* C29: before the Lithium fork and for a fixed difficulty the reward never
\* grows with the parent time: for fork <= t1 <= t2 the reward at t1 is at
\* least the reward at t2 (the incentive entries descend, the last of them is
\* above the first month entry, the month table descends, the plateau repeats
\* its last entry).
C29_NonIncreasing ==
    /\ DescendingSchedule
    /\ (/\ result.op = "kaspaCrossMiningReward"
        /\ ~args.isLithiumFork
        /\ args.forkTime <= args.time)
           => \A e \in Elapsed :
                 args.time <= args.forkTime + e
                    => BigCmp(result.out,
                              kaspaCrossMiningReward(FALSE, args.difficulty,
                                                     args.forkTime, args.forkTime + e)) >= 0

\* a pre-Lithium reward of the last incentive day, above the reward of day 3
\* and of the plateau
C29_Witness ==
    /\ result.op = "kaspaCrossMiningReward"
    /\ ~args.isLithiumFork
    /\ args.time = args.forkTime + KaspaPhaseTwoDayNum * SecondsPerDay - 1
    /\ args.difficulty = BigFromDec(<<1, 0, 0, 0, 0, 0, 0>>)
    /\ BigCmp(result.out,
              kaspaCrossMiningReward(FALSE, args.difficulty, args.forkTime,
                                     args.forkTime + KaspaPhaseTwoDayNum * SecondsPerDay)) > 0
    /\ BigCmp(result.out,
              kaspaCrossMiningReward(FALSE, args.difficulty, args.forkTime,
                                     args.forkTime + 170 * SecondsPerMonth)) > 0

\* C30: during the incentive days (fork <= t < fork + 259200) the reward is
\* the same with and without the Lithium flag; the rescaled table is read
\* only from day 3 on.
C30_IncentiveIgnoresLithium ==
    (/\ result.op = "kaspaCrossMiningReward"
     /\ args.forkTime <= args.time
     /\ args.time < args.forkTime + KaspaPhaseTwoDayNum * SecondsPerDay)
        => result.out = kaspaCrossMiningReward(~args.isLithiumFork, args.difficulty,
                                               args.forkTime, args.time)

\* a Lithium reward of the last second of the incentive days, and the
\* rescaled reward one second later
C30_Witness ==
    /\ result.op = "kaspaCrossMiningReward"
    /\ args.isLithiumFork
    /\ args.time = args.forkTime + KaspaPhaseTwoDayNum * SecondsPerDay - 1
    /\ args.difficulty = BigFromDec(<<1, 0, 0, 0, 0, 0, 0>>)
    /\ result.out = BigFromDec(<<200, 0, 0, 0, 0, 0>>)
    /\ kaspaCrossMiningReward(TRUE, args.difficulty, args.forkTime, args.time + 1)
          # kaspaCrossMiningReward(FALSE, args.difficulty, args.forkTime, args.time + 1)

====
